---- MODULE Spec2Model ----
(***************************************************************************)
(* Model of the pg-agents trading core: the ExecutionAgent's idempotent    *)
(* order placement (app/agents/execution.py), the RiskAgent's guardrail,   *)
(* rule evaluation and action executor (app/agents/risk.py), the           *)
(* system-configuration service with its cache (app/services/system.py),   *)
(* the pure function calculate_r_multiple, two process instances placing   *)
(* orders statement by statement, and the NotifyWorker's locked batches    *)
(* (app/agents/notification.py).                                           *)
(*                                                                         *)
(* Numbers: prices are whole USD; quantities are counted in units of       *)
(* 0.00001 (the size precision of the seeded instruments), so 0.01 is      *)
(* 1000 units; R thresholds are counted in tenths of R; percentages in     *)
(* hundredths; time is whole seconds since a Monday 00:00 UTC.             *)
(***************************************************************************)
EXTENDS Integers, Sequences, FiniteSets, TLC

VARIABLES
    now,                   \* wall clock (UTC seconds)
    orders,                \* table orders, in id order
    placed,                \* history: placed[i] is the decision and time that created order i
    positions,             \* table positions, in id order
    transactions,          \* table transactions (the ledger), in id order
    notification_outbox,   \* table notification_outbox, in id order
    system_configuration,  \* the row id = 1 of table system_configuration
    config_cache,          \* app.services.system._config_cache: <<>> or <<config>>
    cache_expiry,          \* app.services.system._cache_expiry
    risk_rules,            \* RiskAgent.risk_rules
    r_call,                \* a call of calculate_r_multiple: its arguments and what it returned
    placers,               \* per process instance: its placement in progress, step by step
    notifiers,             \* per NotifyWorker: the run in progress and its open transaction
    inbound_alerts,        \* table inbound_alerts, in insertion order
    delivered,             \* history: the ids of the notifications whose send succeeded
    last                   \* history: what the last operation did and returned

vars == <<now, orders, placed, positions, transactions, notification_outbox,
          system_configuration, config_cache, cache_expiry, risk_rules, r_call, placers,
          notifiers, inbound_alerts, delivered, last>>

\* The tables and fields of the trading pipeline.
pipeline == <<now, orders, placed, positions, transactions, notification_outbox,
              system_configuration, config_cache, cache_expiry, risk_rules>>

\* The variables the trading pipeline's operations do not touch.
others == <<r_call, placers, notifiers, inbound_alerts, delivered>>

----------------------------------------------------------------------------
(* Bounds of the model *)

MaxOrders == 2
MaxPositions == 1
MaxPnlRows == 1
MaxSubMinute == 10
MaxSecond == 60
MaxNow == 86400
MaxNotifications == 2
MaxCycleOrders == 3

----------------------------------------------------------------------------
(* Program constants and scales *)

None == -1

AccountId == 1
PlaceholderQuantity == 1000
CACHE_TTL_SECONDS == 15
MinuteSeconds == 60
DaySeconds == 86400
RScale == 10
PercentScale == 100
AdminChatId == 1
RiskChatId == -1

ActiveStatuses == {"NEW"}

\* exchange_instruments JOIN instruments: the first row is the one the
\* end-to-end fixture seeds; the second has an exchange symbol equal to the
\* instrument symbol.
exchange_instruments ==
    << [id |-> 1, symbol |-> "BTC/USD", exchange_symbol |-> "BTCUSD"],
       [id |-> 2, symbol |-> "ETHUSDT", exchange_symbol |-> "ETHUSDT"] >>

InstrumentRow(id) ==
    CHOOSE r \in {exchange_instruments[i] : i \in DOMAIN exchange_instruments} : r.id = id

----------------------------------------------------------------------------
(* Inputs *)

TradingDecision(symbol, side, quantity, sl, tp, confidence) ==
    [symbol |-> symbol, side |-> side, quantity |-> quantity,
     stop_loss |-> sl, take_profit |-> tp, confidence |-> confidence]

SignalSymbols == {"BTC/USD", "ETHUSDT", "DOGE/USD"}

Signals ==
    { TradingDecision(s, "buy", None, 60000, 80000, 90) : s \in SignalSymbols }
    \cup { TradingDecision("ETHUSDT", "sell", None, 61000, 58000, 85) }

\* The signals for instruments the store knows.
ListedSignals == { decision \in Signals : decision.symbol # "DOGE/USD" }

\* The decision of the end-to-end test.
EndToEndSignal == TradingDecision("BTC/USD", "buy", None, 60000, 80000, 90)

ExecFaults == {"none", "lookup_error", "min_notional", "db_error"}

SubMinuteStep == 10

TickSteps == {SubMinuteStep, MinuteSeconds, DaySeconds}

DayOf(t) == t \div DaySeconds

FillPrice(side) == IF side = "buy" THEN 65000 ELSE 60000

----------------------------------------------------------------------------
(* Sequence helpers *)

Range(s) == { s[i] : i \in DOMAIN s }

Abs(x) == IF x < 0 THEN -x ELSE x

----------------------------------------------------------------------------
(* The order store *)

\* The insert into orders as the store decides it: the BEFORE INSERT trigger
\* (normalisation, minimum notional) runs first, then the partial unique
\* index on the idempotency key of active orders.
StoreInsertOrder(ords, row, fault) ==
    IF fault = "min_notional" THEN [status |-> "raise_exception", orders |-> ords]
    ELSE IF fault = "db_error" THEN [status |-> "error", orders |-> ords]
    ELSE IF row.status \in ActiveStatuses
            /\ \E o \in Range(ords) : /\ o.idempotency_key = row.idempotency_key
                                      /\ o.status \in ActiveStatuses
         THEN [status |-> "unique_violation", orders |-> ords]
    ELSE [status |-> "ok", orders |-> Append(ords, row)]

----------------------------------------------------------------------------
(* ExecutionAgent *)

\* SHA256 over "account-symbol-side-stop_loss-take_profit-YYYY-MM-DD HH:MM":
\* the digest is modelled by the tuple of the fields it is computed from.
GenerateIdempotencyKeySeconds(account, decision, t) ==
    <<account, decision.symbol, decision.side, decision.stop_loss,
      decision.take_profit, t>>

\* The key computed from every field of the decision.
GenerateIdempotencyKeyOfWholeDecision(account, decision, t) ==
    <<account, decision.symbol, decision.side, decision.stop_loss,
      decision.take_profit, t \div MinuteSeconds, decision.quantity, decision.confidence>>

GenerateIdempotencyKey(account, decision, t) ==
    <<account, decision.symbol, decision.side, decision.stop_loss,
      decision.take_profit, t \div MinuteSeconds>>

GetExchangeInstrumentId(symbol, fault) ==
    IF fault = "lookup_error" THEN None
    ELSE IF \E r \in Range(exchange_instruments) : r.symbol = symbol
         THEN (CHOOSE r \in Range(exchange_instruments) : r.symbol = symbol).id
         ELSE None

\* The try/except around the INSERT: the row is committed and its id
\* returned, or the transaction is rolled back and None returned.
InsertOutcomeNoCommit(ords, res, order_id) ==
    IF res.status = "ok"
    THEN [orders |-> ords, ret |-> order_id, outcome |-> "inserted"]
    ELSE IF res.status = "unique_violation"
    THEN [orders |-> ords, ret |-> None, outcome |-> "duplicate"]
    ELSE IF res.status = "raise_exception"
    THEN [orders |-> ords, ret |-> None, outcome |-> "rejected"]
    ELSE [orders |-> ords, ret |-> None, outcome |-> "db_error"]

InsertOutcome(ords, res, order_id) ==
    IF res.status = "ok"
    THEN [orders |-> res.orders, ret |-> order_id, outcome |-> "inserted"]
    ELSE IF res.status = "unique_violation"
    THEN [orders |-> ords, ret |-> None, outcome |-> "duplicate"]
    ELSE IF res.status = "raise_exception"
    THEN [orders |-> ords, ret |-> None, outcome |-> "rejected"]
    ELSE [orders |-> ords, ret |-> None, outcome |-> "db_error"]

\* _execute_decision(decision)
ExecuteDecisionChecksEveryStatus(ords, account, decision, t, fault) ==
    LET idempotency_key == GenerateIdempotencyKey(account, decision, t)
        exchange_instrument_id == GetExchangeInstrumentId(decision.symbol, fault)
        order_to_insert ==
            [id |-> Len(ords) + 1,
             account_id |-> account,
             exchange_instrument_id |-> exchange_instrument_id,
             idempotency_key |-> idempotency_key,
             side |-> decision.side,
             type |-> "market",
             status |-> "NEW",
             quantity |-> PlaceholderQuantity,
             price |-> None]
    IN  IF exchange_instrument_id = None
        THEN [orders |-> ords, ret |-> None, outcome |-> "no_instrument"]
        ELSE IF \E o \in Range(ords) : o.idempotency_key = idempotency_key
        THEN [orders |-> ords, ret |-> None, outcome |-> "duplicate"]
        ELSE InsertOutcome(ords, StoreInsertOrder(ords, order_to_insert, fault),
                           order_to_insert.id)

ExecuteDecision(ords, account, decision, t, fault) ==
    LET idempotency_key == GenerateIdempotencyKey(account, decision, t)
        exchange_instrument_id == GetExchangeInstrumentId(decision.symbol, fault)
        order_to_insert ==
            [id |-> Len(ords) + 1,
             account_id |-> account,
             exchange_instrument_id |-> exchange_instrument_id,
             idempotency_key |-> idempotency_key,
             side |-> decision.side,
             type |-> "market",
             status |-> "NEW",
             quantity |-> PlaceholderQuantity,
             price |-> None]
    IN  IF exchange_instrument_id = None
        THEN [orders |-> ords, ret |-> None, outcome |-> "no_instrument"]
        ELSE InsertOutcome(ords, StoreInsertOrder(ords, order_to_insert, fault),
                           order_to_insert.id)

\* History of the decisions that created the order rows.
Record(hist, res, decision, t) ==
    IF res.ret = None THEN hist ELSE Append(hist, [decision |-> decision, t |-> t])

\* ExecutionAgent.run(decision)
ExecRun(decision, fault) ==
    /\ \E res \in {ExecuteDecision(orders, AccountId, decision, now, fault)} :
           /\ Len(res.orders) <= MaxOrders
           /\ orders' = res.orders
           /\ placed' = Record(placed, res, decision, now)
           /\ last' = [op |-> "exec", decision |-> decision,
                       ret |-> res.ret, outcome |-> res.outcome, raised |-> FALSE]
    /\ UNCHANGED <<now, positions, transactions, notification_outbox,
                   system_configuration, config_cache, cache_expiry, risk_rules, others>>

----------------------------------------------------------------------------
(* Environment: clock and external fill processing *)

\* The instant the clock shows after a step of d: the next multiple of d.
Advance(t, d) == ((t \div d) + 1) * d

Tick(d) ==
    /\ d < MinuteSeconds => Advance(now, d) % MinuteSeconds <= MaxSubMinute
    /\ d < DaySeconds => Advance(now, d) % DaySeconds <= MaxSecond
    /\ Advance(now, d) <= MaxNow
    /\ now' = Advance(now, d)
    /\ last' = [op |-> "tick"]
    /\ UNCHANGED <<orders, placed, positions, transactions, notification_outbox,
                   system_configuration, config_cache, cache_expiry, risk_rules, others>>

\* The cancellation of an active order by an UPDATE of its status.
Cancel(i) ==
    /\ i \in DOMAIN orders
    /\ orders[i].status \in ActiveStatuses
    /\ orders' = [orders EXCEPT ![i].status = "CANCELLED"]
    /\ last' = [op |-> "cancel", order_id |-> i]
    /\ UNCHANGED <<now, placed, positions, transactions, notification_outbox,
                   system_configuration, config_cache, cache_expiry, risk_rules, others>>

SignedQuantity(o) == IF o.side = "buy" THEN o.quantity ELSE -o.quantity

HasPosition(poss, account, instrument) ==
    \E p \in Range(poss) : p.account_id = account /\ p.exchange_instrument_id = instrument

\* The fill of an order as the end-to-end test performs it: the order becomes
\* FILLED, the position of its (account, instrument) is created or its
\* quantity adjusted, and a TRADE row is appended to the ledger.
UpsertPosition(poss, o, sl) ==
    IF HasPosition(poss, o.account_id, o.exchange_instrument_id)
    THEN [i \in DOMAIN poss |->
            IF poss[i].account_id = o.account_id
               /\ poss[i].exchange_instrument_id = o.exchange_instrument_id
            THEN [poss[i] EXCEPT !.quantity = @ + SignedQuantity(o)]
            ELSE poss[i]]
    ELSE Append(poss, [id |-> Len(poss) + 1,
                       account_id |-> o.account_id,
                       exchange_instrument_id |-> o.exchange_instrument_id,
                       quantity |-> SignedQuantity(o),
                       average_entry_price |-> FillPrice(o.side),
                       initial_stop_loss |-> sl])

Fill(i) ==
    /\ i \in DOMAIN orders
    /\ orders[i].status = "NEW"
    /\ \/ HasPosition(positions, orders[i].account_id, orders[i].exchange_instrument_id)
       \/ Len(positions) < MaxPositions
    /\ orders' = [orders EXCEPT ![i].status = "FILLED"]
    /\ positions' = UpsertPosition(positions, orders[i], placed[i].decision.stop_loss)
    /\ transactions' = Append(transactions,
                              [id |-> Len(transactions) + 1,
                               account_id |-> orders[i].account_id,
                               related_order_id |-> i,
                               transaction_type |-> <<"TRADE">>,
                               amount |-> orders[i].quantity,
                               timestamp |-> now])
    /\ last' = [op |-> "fill", order_id |-> i]
    /\ UNCHANGED <<now, placed, notification_outbox,
                   system_configuration, config_cache, cache_expiry, risk_rules, others>>

----------------------------------------------------------------------------
(* System configuration service (app/services/system.py) *)

\* get_system_configuration: the cached value while the cache is fresh,
\* otherwise a read of the store that refills the cache; a failed read
\* returns no configuration and leaves the cache alone.
\* The cache answers up to and including the instant of its expiry.
GetSystemConfigurationAtExpiry(cfg, cache, expiry, t, fault) ==
    IF cache # <<>> /\ expiry # None /\ t <= expiry
    THEN [config |-> cache, cache |-> cache, expiry |-> expiry, read |-> FALSE]
    ELSE IF fault = "config_read"
    THEN [config |-> <<>>, cache |-> cache, expiry |-> expiry, read |-> FALSE]
    ELSE [config |-> <<cfg>>, cache |-> <<cfg>>, expiry |-> t + CACHE_TTL_SECONDS,
          read |-> TRUE]

GetSystemConfiguration(cfg, cache, expiry, t, fault) ==
    IF cache # <<>> /\ expiry # None /\ t < expiry
    THEN [config |-> cache, cache |-> cache, expiry |-> expiry, read |-> FALSE]
    ELSE IF fault = "config_read"
    THEN [config |-> <<>>, cache |-> cache, expiry |-> expiry, read |-> FALSE]
    ELSE [config |-> <<cfg>>, cache |-> <<cfg>>, expiry |-> t + CACHE_TTL_SECONDS,
          read |-> TRUE]

\* set_trading_enabled: the UPDATE and commit, then the cache is invalidated;
\* on a failure the store and the cache keep their values.
SetTradingEnabledKeepsCache(cfg, cache, expiry, status, fault) ==
    IF fault = "set_flag"
    THEN [ok |-> FALSE, cfg |-> cfg, cache |-> cache, expiry |-> expiry]
    ELSE [ok |-> TRUE, cfg |-> [cfg EXCEPT !.is_trading_enabled = status],
          cache |-> cache, expiry |-> expiry]

SetTradingEnabled(cfg, cache, expiry, status, fault) ==
    IF fault = "set_flag"
    THEN [ok |-> FALSE, cfg |-> cfg, cache |-> cache, expiry |-> expiry]
    ELSE [ok |-> TRUE, cfg |-> [cfg EXCEPT !.is_trading_enabled = status],
          cache |-> <<>>, expiry |-> None]

----------------------------------------------------------------------------
(* Realized PnL (app/kpi/services.py) *)

PnlTransactionTypes == { <<"REALIZED_PNL">>, <<"FEE">>, <<"FUNDING">> }

RECURSIVE CalculateRealizedPnlForPeriod(_, _, _)
CalculateRealizedPnlForPeriod(ledger, start_utc, end_utc) ==
    IF ledger = <<>> THEN 0
    ELSE LET row == Head(ledger)
             amount == IF /\ row.transaction_type \in PnlTransactionTypes
                          /\ row.timestamp >= start_utc
                          /\ row.timestamp < end_utc
                       THEN row.amount ELSE 0
         IN  amount + CalculateRealizedPnlForPeriod(Tail(ledger), start_utc, end_utc)

\* The clock starts on a Monday, so the weekday of day d is d % 7.
Weekday(t) == DayOf(t) % 7

GetDailyPnl(ledger, t) ==
    CalculateRealizedPnlForPeriod(ledger, DayOf(t) * DaySeconds, t)

GetWeeklyPnl(ledger, t) ==
    CalculateRealizedPnlForPeriod(ledger, (DayOf(t) - Weekday(t)) * DaySeconds, t)

----------------------------------------------------------------------------
(* The notification outbox *)

\* enqueue_notification(chat_id, severity, title, message, dedupe_key) of the
\* store: one PENDING row per dedupe key.
EnqueueNotification(outbox, chat_id, severity, title, message, dedupe_key, t) ==
    IF \E n \in Range(outbox) : n.dedupe_key = dedupe_key
    THEN outbox
    ELSE Append(outbox, [id |-> Len(outbox) + 1,
                         chat_id |-> chat_id,
                         severity |-> severity,
                         title |-> title,
                         message |-> message,
                         dedupe_key |-> dedupe_key,
                         status |-> "PENDING",
                         fail_count |-> 0,
                         send_after |-> None,
                         sent_at |-> None,
                         created_at |-> t])

----------------------------------------------------------------------------
(* RiskAgent: the guardrail *)

\* The step of a risk cycle that fails, if any.
GuardFaults == {"none", "config_read", "set_flag", "critical_notify"}

TradeFaults ==
    {"none", "min_notional", "db_error", "ledger", "notify", "fetch_positions", "price_error"}

LossLimitDedupeKeyConstant(t) == <<"loss-limit-breach", 0>>

LossLimitDedupeKey(t) == <<"loss-limit-breach", DayOf(t)>>

\* The part of _check_global_loss_limits after a breach was found.
ActivateKillSwitchNoWrite(G, reason, t, fault) ==
    [cfg |-> G.cfg, cache |-> G.cache, expiry |-> G.expiry,
     outbox |-> IF fault = "critical_notify" THEN G.outbox
                ELSE EnqueueNotification(G.outbox, AdminChatId, "CRITICAL",
                                         <<"TRADING HALTED">>, <<reason>>,
                                         LossLimitDedupeKey(t), t),
     report |-> [checked |-> TRUE, breached |-> reason, flag_written |-> FALSE,
                 alert |-> fault # "critical_notify",
                 failed |-> IF fault \in {"set_flag", "critical_notify"} THEN fault ELSE "none"]]

ActivateKillSwitchEnables(G, reason, t, fault) ==
    LET w == SetTradingEnabled(G.cfg, G.cache, G.expiry, TRUE, fault)
    IN  [cfg |-> w.cfg, cache |-> w.cache, expiry |-> w.expiry,
         outbox |-> IF fault = "critical_notify" THEN G.outbox
                    ELSE EnqueueNotification(G.outbox, AdminChatId, "CRITICAL",
                                             <<"TRADING HALTED">>, <<reason>>,
                                             LossLimitDedupeKey(t), t),
         report |-> [checked |-> TRUE, breached |-> reason, flag_written |-> w.ok,
                     alert |-> fault # "critical_notify",
                     failed |-> IF fault \in {"set_flag", "critical_notify"} THEN fault
                                ELSE "none"]]

ActivateKillSwitch(G, reason, t, fault) ==
    LET w == SetTradingEnabled(G.cfg, G.cache, G.expiry, FALSE, fault)
    IN  [cfg |-> w.cfg, cache |-> w.cache, expiry |-> w.expiry,
         outbox |-> IF fault = "critical_notify" THEN G.outbox
                    ELSE EnqueueNotification(G.outbox, AdminChatId, "CRITICAL",
                                             <<"TRADING HALTED">>, <<reason>>,
                                             LossLimitDedupeKey(t), t),
         report |-> [checked |-> TRUE, breached |-> reason, flag_written |-> w.ok,
                     alert |-> fault # "critical_notify",
                     failed |-> IF fault \in {"set_flag", "critical_notify"} THEN fault
                                ELSE "none"]]

CheckGlobalLossLimitsIgnoresFlag(G, ledger, t, fault) ==
    LET c == GetSystemConfiguration(G.cfg, G.cache, G.expiry, t, fault)
        G1 == [G EXCEPT !.cache = c.cache, !.expiry = c.expiry]
        skipped == [checked |-> FALSE, breached |-> "none", flag_written |-> FALSE,
                    alert |-> FALSE, failed |-> "none"]
    IN  IF c.config = <<>>
        THEN [cfg |-> G1.cfg, cache |-> G1.cache, expiry |-> G1.expiry,
              outbox |-> G1.outbox, report |-> [skipped EXCEPT !.failed = "config_read"]]
        ELSE LET config == c.config[1]
                 daily_pnl == GetDailyPnl(ledger, t)
                 weekly_pnl == GetWeeklyPnl(ledger, t)
             IN  IF daily_pnl < -config.daily_loss_limit_usd
                 THEN ActivateKillSwitch(G1, "daily", t, fault)
                 ELSE IF weekly_pnl < -config.weekly_loss_limit_usd
                 THEN ActivateKillSwitch(G1, "weekly", t, fault)
                 ELSE [cfg |-> G1.cfg, cache |-> G1.cache, expiry |-> G1.expiry,
                       outbox |-> G1.outbox,
                       report |-> [skipped EXCEPT !.checked = TRUE]]

\* _check_global_loss_limits; G holds the configuration row, the cache and
\* the outbox.
CheckGlobalLossLimits(G, ledger, t, fault) ==
    LET c == GetSystemConfiguration(G.cfg, G.cache, G.expiry, t, fault)
        G1 == [G EXCEPT !.cache = c.cache, !.expiry = c.expiry]
        skipped == [checked |-> FALSE, breached |-> "none", flag_written |-> FALSE,
                    alert |-> FALSE, failed |-> "none"]
    IN  IF c.config = <<>>
        THEN [cfg |-> G1.cfg, cache |-> G1.cache, expiry |-> G1.expiry,
              outbox |-> G1.outbox, report |-> [skipped EXCEPT !.failed = "config_read"]]
        ELSE IF ~c.config[1].is_trading_enabled
        THEN [cfg |-> G1.cfg, cache |-> G1.cache, expiry |-> G1.expiry,
              outbox |-> G1.outbox, report |-> skipped]
        ELSE LET config == c.config[1]
                 daily_pnl == GetDailyPnl(ledger, t)
                 weekly_pnl == GetWeeklyPnl(ledger, t)
             IN  IF daily_pnl < -config.daily_loss_limit_usd
                 THEN ActivateKillSwitch(G1, "daily", t, fault)
                 ELSE IF weekly_pnl < -config.weekly_loss_limit_usd
                 THEN ActivateKillSwitch(G1, "weekly", t, fault)
                 ELSE [cfg |-> G1.cfg, cache |-> G1.cache, expiry |-> G1.expiry,
                       outbox |-> G1.outbox,
                       report |-> [skipped EXCEPT !.checked = TRUE]]

----------------------------------------------------------------------------
(* RiskAgent: rule evaluation *)

\* sorted(self.risk_rules, key=profit_r, reverse=True); the sort is stable.
RECURSIVE InsertByProfitRAsc(_, _)
InsertByProfitRAsc(rule, s) ==
    IF s = <<>> THEN <<rule>>
    ELSE IF rule.profit_r <= Head(s).profit_r THEN <<rule>> \o s
    ELSE <<Head(s)>> \o InsertByProfitRAsc(rule, Tail(s))

RECURSIVE InsertByProfitR(_, _)
InsertByProfitR(rule, s) ==
    IF s = <<>> THEN <<rule>>
    ELSE IF rule.profit_r >= Head(s).profit_r THEN <<rule>> \o s
    ELSE <<Head(s)>> \o InsertByProfitR(rule, Tail(s))

RECURSIVE SortedByProfitR(_)
SortedByProfitR(rules) ==
    IF rules = <<>> THEN <<>>
    ELSE InsertByProfitR(Head(rules), SortedByProfitR(Tail(rules)))

\* r_multiple >= rule['profit_r'], with r_multiple = profit / risk, risk > 0
\* and profit_r counted in 1/RScale.
MeetsThresholdStrict(profit, risk, rule) == profit * RScale > rule.profit_r * risk

MeetsThreshold(profit, risk, rule) == profit * RScale >= rule.profit_r * risk

\* The rule the loop of _evaluate_position_risk stops at: <<rule>>, or <<>>.
RECURSIVE FirstTriggered(_, _, _)
FirstTriggered(sorted, profit, risk) ==
    IF sorted = <<>> THEN <<>>
    ELSE IF MeetsThreshold(profit, risk, Head(sorted)) THEN <<Head(sorted)>>
    ELSE FirstTriggered(Tail(sorted), profit, risk)

\* The fallback of _evaluate_position_risk for an unset initial stop-loss.
InitialStopLoss(position) ==
    IF position.initial_stop_loss = None
    THEN (position.average_entry_price * 98) \div 100
    ELSE position.initial_stop_loss

ProfitPerUnit(position, current_price) ==
    IF position.quantity > 0
    THEN current_price - position.average_entry_price
    ELSE position.average_entry_price - current_price

----------------------------------------------------------------------------
(* RiskAgent: the action executor *)

Upper(name) ==
    CASE name = "partial_profit_1R" -> "PARTIAL_PROFIT_1R"
      [] name = "breakeven_2R" -> "BREAKEVEN_2R"
      [] name = "trailing_stop_3R" -> "TRAILING_STOP_3R"
      [] name = "stop_loss" -> "STOP_LOSS"
      [] OTHER -> name

\* What one evaluation of a position did; the fields after action are
\* filled by the action executor.
NoAction(position, price, profit, risk, outcome) ==
    [position_id |-> position.id, symbol |-> position.exchange_symbol,
     instrument |-> position.exchange_instrument_id,
     quantity |-> position.quantity, price |-> price, profit |-> profit, risk |-> risk,
     rule |-> "none", action |-> "none", close_qty |-> 0, close_side |-> "none",
     order_id |-> None, outcome |-> outcome, ledger |-> FALSE, notified |-> FALSE]

Logged(S, entry) == [S EXCEPT !.log = Append(@, entry)]

\* Step 4 of close_partial: the INSERT into transactions and its commit; on
\* a failure the transaction is rolled back and the action returns.
LogRiskTransactionOverwrites(S, order_id, rule, close_qty, t, fault) ==
    IF fault = "ledger" THEN S
    ELSE [S EXCEPT !.transactions =
             [@ EXCEPT ![Len(@)] =
                       [id |-> Len(S.transactions),
                        account_id |-> AccountId,
                        related_order_id |-> order_id,
                        transaction_type |-> <<"RISK_ACTION", Upper(rule.name)>>,
                        amount |-> close_qty,
                        timestamp |-> t]]]

\* The ledger row carries the quantity of the order row and the rule name as
\* it is written in the rule.
LogRiskTransactionOfOrderRow(S, order_id, rule, close_qty, t, fault) ==
    IF fault = "ledger" THEN S
    ELSE [S EXCEPT !.transactions =
             Append(@, [id |-> Len(@) + 1,
                        account_id |-> AccountId,
                        related_order_id |-> order_id,
                        transaction_type |-> <<"RISK_ACTION", rule.name>>,
                        amount |-> S.orders[order_id].quantity,
                        timestamp |-> t])]

LogRiskTransaction(S, order_id, rule, close_qty, t, fault) ==
    IF fault = "ledger" THEN S
    ELSE [S EXCEPT !.transactions =
             Append(@, [id |-> Len(@) + 1,
                        account_id |-> AccountId,
                        related_order_id |-> order_id,
                        transaction_type |-> <<"RISK_ACTION", Upper(rule.name)>>,
                        amount |-> close_qty,
                        timestamp |-> t])]

\* Step 5 of close_partial: the notification of the action; on a failure
\* the open transaction, which holds nothing but the failed statement, is
\* rolled back.
EnqueueRiskNotificationUndoesLedger(S, position, rule, close_qty, profit, risk, order_id, t, fault) ==
    IF fault = "notify"
    THEN [S EXCEPT !.transactions = SubSeq(@, 1, Len(@) - 1)]
    ELSE [S EXCEPT !.outbox =
             EnqueueNotification(@, RiskChatId, "INFO",
                 <<"Risk Action", rule.name>>,
                 <<rule.name, position.exchange_symbol, close_qty, profit, risk>>,
                 <<"risk-action", position.id, rule.name, order_id>>, t)]

EnqueueRiskNotification(S, position, rule, close_qty, profit, risk, order_id, t, fault) ==
    IF fault = "notify" THEN S
    ELSE [S EXCEPT !.outbox =
             EnqueueNotification(@, RiskChatId, "INFO",
                 <<"Risk Action", rule.name>>,
                 <<rule.name, position.exchange_symbol, close_qty, profit, risk>>,
                 <<"risk-action", position.id, rule.name, order_id>>, t)]

\* Steps 4 and 5, after the closing order was placed.
LedgerThenNotifyAlways(S, e, position, rule, profit, risk, t, fault) ==
    LET S2 == LogRiskTransaction(S, e.order_id, rule, e.close_qty, t, fault)
        S3 == EnqueueRiskNotification(S2, position, rule, e.close_qty, profit, risk,
                                      e.order_id, t, fault)
    IN  Logged(S3, [e EXCEPT !.ledger = fault # "ledger", !.notified = fault # "notify",
                             !.outcome = IF fault = "ledger" THEN "ledger_failed"
                                         ELSE IF fault = "notify" THEN "notify_failed"
                                         ELSE @])

LedgerThenNotify(S, e, position, rule, profit, risk, t, fault) ==
    IF fault = "ledger"
    THEN Logged(LogRiskTransaction(S, e.order_id, rule, e.close_qty, t, fault),
                [e EXCEPT !.outcome = "ledger_failed"])
    ELSE LET S2 == LogRiskTransaction(S, e.order_id, rule, e.close_qty, t, fault)
             S3 == EnqueueRiskNotification(S2, position, rule, e.close_qty, profit, risk,
                                           e.order_id, t, fault)
         IN  Logged(S3, [e EXCEPT !.ledger = TRUE, !.notified = fault # "notify",
                                  !.outcome = IF fault = "notify" THEN "notify_failed" ELSE @])

\* The check of the order id returned by the placement.
AfterPlacementUnchecked(S, e, position, rule, profit, risk, t, fault) ==
    LedgerThenNotify(S, e, position, rule, profit, risk, t, fault)

AfterPlacement(S, e, position, rule, profit, risk, t, fault) ==
    IF e.order_id = None
    THEN Logged(S, e)
    ELSE LedgerThenNotify(S, e, position, rule, profit, risk, t, fault)

\* Every action kind closes: a kind without a percentage closes the whole
\* position.
ExecuteRiskActionClosesAlways(S, position, rule, price, profit, risk, t, fault) ==
    LET base == [NoAction(position, price, profit, risk, "dispatched")
                    EXCEPT !.rule = rule.name, !.action = rule.action]
        percentage == IF rule.percentage = None THEN PercentScale ELSE rule.percentage
    IN
    IF ~(0 < percentage /\ percentage <= PercentScale)
    THEN Logged(S, [base EXCEPT !.outcome = "invalid_percentage"])
    ELSE
    LET position_qty == position.quantity
        close_qty == (position_qty * percentage) \div PercentScale
        close_side == IF position_qty > 0 THEN "sell" ELSE "buy"
        decision == TradingDecision(position.exchange_symbol, close_side, close_qty, 0, 0, 100)
        placedOrder == ExecuteDecision(S.orders, AccountId, decision, t, fault)
        sized == [base EXCEPT !.close_qty = close_qty, !.close_side = close_side,
                              !.order_id = placedOrder.ret, !.outcome = placedOrder.outcome]
        S1 == [S EXCEPT !.orders = placedOrder.orders,
                        !.placed = Record(S.placed, placedOrder, decision, t)]
    IN  AfterPlacement(S1, sized, position, rule, profit, risk, t, fault)

\* close_partial without the check of the percentage.
ExecuteRiskActionUnvalidated(S, position, rule, price, profit, risk, t, fault) ==
    LET base == [NoAction(position, price, profit, risk, "dispatched")
                    EXCEPT !.rule = rule.name, !.action = rule.action]
    IN
    IF rule.action # "close_partial"
    THEN Logged(S, [base EXCEPT !.outcome = "not_implemented"])
    ELSE
    LET percentage == IF rule.percentage = None THEN 0 ELSE rule.percentage
        position_qty == position.quantity
        close_qty == (position_qty * percentage) \div PercentScale
        close_side == IF position_qty > 0 THEN "sell" ELSE "buy"
        decision == TradingDecision(position.exchange_symbol, close_side, close_qty, 0, 0, 100)
        placedOrder == ExecuteDecision(S.orders, AccountId, decision, t, fault)
        sized == [base EXCEPT !.close_qty = close_qty, !.close_side = close_side,
                              !.order_id = placedOrder.ret, !.outcome = placedOrder.outcome]
        S1 == [S EXCEPT !.orders = placedOrder.orders,
                        !.placed = Record(S.placed, placedOrder, decision, t)]
    IN  AfterPlacement(S1, sized, position, rule, profit, risk, t, fault)

\* _execute_risk_action(position, rule); S holds the tables the action
\* writes and the log of the cycle.
ExecuteRiskAction(S, position, rule, price, profit, risk, t, fault) ==
    LET base == [NoAction(position, price, profit, risk, "dispatched")
                    EXCEPT !.rule = rule.name, !.action = rule.action]
    IN
    IF rule.action # "close_partial"
    THEN Logged(S, [base EXCEPT !.outcome = "not_implemented"])
    ELSE
    LET percentage == IF rule.percentage = None THEN 0 ELSE rule.percentage
    IN
    IF ~(0 < percentage /\ percentage <= PercentScale)
    THEN Logged(S, [base EXCEPT !.outcome = "invalid_percentage"])
    ELSE
    LET position_qty == position.quantity
        close_qty == (position_qty * percentage) \div PercentScale
        close_side == IF position_qty > 0 THEN "sell" ELSE "buy"
        decision == TradingDecision(position.exchange_symbol, close_side, close_qty, 0, 0, 100)
        placedOrder == ExecuteDecision(S.orders, AccountId, decision, t, fault)
        sized == [base EXCEPT !.close_qty = close_qty, !.close_side = close_side,
                              !.order_id = placedOrder.ret, !.outcome = placedOrder.outcome]
        S1 == [S EXCEPT !.orders = placedOrder.orders,
                        !.placed = Record(S.placed, placedOrder, decision, t)]
    IN  AfterPlacement(S1, sized, position, rule, profit, risk, t, fault)

\* The rule was dispatched for the position before: the ledger holds a row of
\* one of its actions.
EvaluatePositionRiskOnce(S, position, current_price, rules, t, fault) ==
    LET entry_price == position.average_entry_price
        initial_sl == InitialStopLoss(position)
        initial_risk_per_unit == Abs(entry_price - initial_sl)
        profit_per_unit == ProfitPerUnit(position, current_price)
        triggered == FirstTriggered(SortedByProfitR(rules), profit_per_unit,
                                    initial_risk_per_unit)
    IN  IF fault = "price_error"
        THEN Logged([S EXCEPT !.raised = TRUE], NoAction(position, None, 0, None, "raised"))
        ELSE IF current_price = None
        THEN Logged(S, NoAction(position, current_price, 0, None, "no_price"))
        ELSE IF initial_risk_per_unit = 0
        THEN Logged(S, NoAction(position, current_price, 0, 0, "zero_risk"))
        ELSE IF triggered = <<>>
                \/ \E tx \in Range(S.transactions) :
                      tx.transaction_type = <<"RISK_ACTION", Upper(triggered[1].name)>>
        THEN Logged(S, NoAction(position, current_price, profit_per_unit,
                                initial_risk_per_unit, "no_rule"))
        ELSE ExecuteRiskAction(S, position, triggered[1], current_price, profit_per_unit,
                               initial_risk_per_unit, t, fault)

\* The division by an initial risk of zero raises and leaves the evaluation.
EvaluatePositionRiskNoZeroCheck(S, position, current_price, rules, t, fault) ==
    LET entry_price == position.average_entry_price
        initial_sl == InitialStopLoss(position)
        initial_risk_per_unit == Abs(entry_price - initial_sl)
        profit_per_unit == ProfitPerUnit(position, current_price)
        triggered == FirstTriggered(SortedByProfitR(rules), profit_per_unit,
                                    initial_risk_per_unit)
    IN  IF fault = "price_error"
        THEN Logged([S EXCEPT !.raised = TRUE], NoAction(position, None, 0, None, "raised"))
        ELSE IF current_price = None
        THEN Logged(S, NoAction(position, current_price, 0, None, "no_price"))
        ELSE IF initial_risk_per_unit = 0
        THEN Logged([S EXCEPT !.raised = TRUE], NoAction(position, current_price, 0, 0, "raised"))
        ELSE IF triggered = <<>>
        THEN Logged(S, NoAction(position, current_price, profit_per_unit,
                                initial_risk_per_unit, "no_rule"))
        ELSE ExecuteRiskAction(S, position, triggered[1], current_price, profit_per_unit,
                               initial_risk_per_unit, t, fault)

\* _evaluate_position_risk(position); an error raised by the price source is
\* caught nowhere and leaves the evaluation.
EvaluatePositionRisk(S, position, current_price, rules, t, fault) ==
    LET entry_price == position.average_entry_price
        initial_sl == InitialStopLoss(position)
        initial_risk_per_unit == Abs(entry_price - initial_sl)
        profit_per_unit == ProfitPerUnit(position, current_price)
        triggered == FirstTriggered(SortedByProfitR(rules), profit_per_unit,
                                    initial_risk_per_unit)
    IN  IF fault = "price_error"
        THEN Logged([S EXCEPT !.raised = TRUE], NoAction(position, None, 0, None, "raised"))
        ELSE IF current_price = None
        THEN Logged(S, NoAction(position, current_price, 0, None, "no_price"))
        ELSE IF initial_risk_per_unit = 0
        THEN Logged(S, NoAction(position, current_price, 0, 0, "zero_risk"))
        ELSE IF triggered = <<>>
        THEN Logged(S, NoAction(position, current_price, profit_per_unit,
                                initial_risk_per_unit, "no_rule"))
        ELSE ExecuteRiskAction(S, position, triggered[1], current_price, profit_per_unit,
                               initial_risk_per_unit, t, fault)

----------------------------------------------------------------------------
(* RiskAgent.run *)

\* _get_active_positions: the rows of the account with a non-zero quantity,
\* joined with the exchange symbol of their instrument.
GetActivePositions(poss, account, fault) ==
    IF fault = "fetch_positions" THEN <<>>
    ELSE LET active == SelectSeq(poss, LAMBDA p : p.account_id = account /\ p.quantity # 0)
         IN  [i \in DOMAIN active |->
                [id |-> active[i].id,
                 exchange_instrument_id |-> active[i].exchange_instrument_id,
                 exchange_symbol |-> InstrumentRow(active[i].exchange_instrument_id).exchange_symbol,
                 quantity |-> active[i].quantity,
                 average_entry_price |-> active[i].average_entry_price,
                 initial_stop_loss |-> active[i].initial_stop_loss]]

\* The loop of run over the active positions; an error raised by an
\* evaluation leaves the loop.
RECURSIVE EvaluateAll(_, _, _, _, _, _)
EvaluateAll(S, active_positions, prices, rules, t, fault) ==
    IF active_positions = <<>> \/ S.raised THEN S
    ELSE LET position == Head(active_positions)
         IN  EvaluateAll(EvaluatePositionRisk(S, position, prices[position.exchange_symbol],
                                              rules, t, fault),
                         Tail(active_positions), prices, rules, t, fault)

Prices == {None, 57000, 59000, 61500, 72500, 77000}

ExchangeSymbols == { r.exchange_symbol : r \in Range(exchange_instruments) }

ActiveSymbols ==
    { InstrumentRow(p.exchange_instrument_id).exchange_symbol :
        p \in { q \in Range(positions) : q.quantity # 0 } }

\* The prices the feed may quote for a symbol: every price, or none, for
\* ETHUSDT; the price of the end-to-end scenario for BTCUSD.
QuotedPrices(sym) == IF sym = "BTCUSD" THEN {72500} ELSE Prices

\* The price feed's answers of one cycle; only the symbols of active
\* positions are asked for.
PriceFeeds ==
    { f \in [ExchangeSymbols -> Prices] :
        \A sym \in ExchangeSymbols :
            f[sym] \in (IF sym \in ActiveSymbols THEN QuotedPrices(sym) ELSE {None}) }

\* RiskAgent.run: the guardrail check, the fetch of the active positions and
\* the evaluation of each.
RiskCycleGuardRaises(prices, fault) ==
    LET G == CheckGlobalLossLimits([cfg |-> system_configuration, cache |-> config_cache,
                                    expiry |-> cache_expiry, outbox |-> notification_outbox],
                                   transactions, now, fault)
        stopped == G.report.failed \in {"set_flag", "critical_notify"}
        active_positions == IF stopped THEN <<>>
                            ELSE GetActivePositions(positions, AccountId, fault)
        S == EvaluateAll([orders |-> orders, placed |-> placed,
                          transactions |-> transactions, outbox |-> G.outbox, log |-> <<>>,
                          raised |-> stopped],
                         active_positions, prices, risk_rules, now, fault)
    IN  [cfg |-> G.cfg, cache |-> G.cache, expiry |-> G.expiry, report |-> G.report,
         fetched |-> Len(active_positions), S |-> S]

RiskCycle(prices, fault) ==
    LET G == CheckGlobalLossLimits([cfg |-> system_configuration, cache |-> config_cache,
                                    expiry |-> cache_expiry, outbox |-> notification_outbox],
                                   transactions, now, fault)
        active_positions == GetActivePositions(positions, AccountId, fault)
        S == EvaluateAll([orders |-> orders, placed |-> placed,
                          transactions |-> transactions, outbox |-> G.outbox, log |-> <<>>,
                          raised |-> FALSE],
                         active_positions, prices, risk_rules, now, fault)
    IN  [cfg |-> G.cfg, cache |-> G.cache, expiry |-> G.expiry, report |-> G.report,
         fetched |-> Len(active_positions), S |-> S]

\* RiskAgent.run with the order table bounded by max_orders.
RiskRunWithin(prices, fault, max_orders) ==
    \E C \in {RiskCycle(prices, fault)} :
        /\ Len(C.S.orders) <= max_orders
        /\ system_configuration' = C.cfg
        /\ config_cache' = C.cache
        /\ cache_expiry' = C.expiry
        /\ orders' = C.S.orders
        /\ placed' = C.S.placed
        /\ transactions' = C.S.transactions
        /\ notification_outbox' = C.S.outbox
        /\ last' = [op |-> "risk", guard |-> C.report,
                    fetched |-> C.fetched, evals |-> C.S.log, raised |-> C.S.raised]
        /\ UNCHANGED <<now, positions, risk_rules, others>>

RiskRun(prices, fault) == RiskRunWithin(prices, fault, MaxOrders)

----------------------------------------------------------------------------
(* Environment: realized PnL booked by fill processing, operator writes *)

PnlAmounts == {-600}

PnlRows(ledger) == SelectSeq(ledger, LAMBDA row : row.transaction_type \in PnlTransactionTypes)

RecordPnl(amount) ==
    /\ Len(PnlRows(transactions)) < MaxPnlRows
    /\ transactions' = Append(transactions,
                              [id |-> Len(transactions) + 1,
                               account_id |-> AccountId,
                               related_order_id |-> None,
                               transaction_type |-> <<"REALIZED_PNL">>,
                               amount |-> amount,
                               timestamp |-> now])
    /\ last' = [op |-> "pnl"]
    /\ UNCHANGED <<now, orders, placed, positions, notification_outbox,
                   system_configuration, config_cache, cache_expiry, risk_rules, others>>

\* An operator's UPDATE of system_configuration from outside the process: the
\* cache of the process is not touched.
OperatorSetTrading(status) ==
    /\ system_configuration.is_trading_enabled # status
    /\ system_configuration' = [system_configuration EXCEPT !.is_trading_enabled = status]
    /\ last' = [op |-> "operator"]
    /\ UNCHANGED <<now, orders, placed, positions, transactions, notification_outbox,
                   config_cache, cache_expiry, risk_rules, others>>

----------------------------------------------------------------------------
(* The configuration service called by the process *)

ConfigFaults == {"none", "config_read"}

FlagFaults == {"none", "set_flag"}

CacheFresh == config_cache # <<>> /\ cache_expiry # None /\ now < cache_expiry

\* A call of get_system_configuration(db_conn).
ReadConfiguration(fault) ==
    /\ \E c \in {GetSystemConfiguration(system_configuration, config_cache, cache_expiry,
                                        now, fault)} :
          /\ config_cache' = c.cache
          /\ cache_expiry' = c.expiry
          /\ last' = [op |-> "get_config", returned |-> c.config, read |-> c.read,
                      after_set |-> (last.op = "set_trading" /\ last.ok),
                      cached_at_set |-> IF last.op = "set_trading" /\ last.fresh_before
                                        THEN last.cache_before ELSE <<>>]
    /\ UNCHANGED <<now, orders, placed, positions, transactions, notification_outbox,
                   system_configuration, risk_rules, others>>

\* A call of set_trading_enabled(db_conn, status).
WriteTradingEnabled(status, fault) ==
    /\ \E w \in {SetTradingEnabled(system_configuration, config_cache, cache_expiry,
                                   status, fault)} :
          /\ system_configuration' = w.cfg
          /\ config_cache' = w.cache
          /\ cache_expiry' = w.expiry
          /\ last' = [op |-> "set_trading", status |-> status, ok |-> w.ok,
                      cache_before |-> config_cache, fresh_before |-> CacheFresh]
    /\ UNCHANGED <<now, orders, placed, positions, transactions, notification_outbox,
                   risk_rules, others>>

----------------------------------------------------------------------------
(* Two process instances placing orders statement by statement *)

Instances == {"a", "b"}

EthBuySignal == TradingDecision("ETHUSDT", "buy", None, 60000, 80000, 90)

EthSellSignal == TradingDecision("ETHUSDT", "sell", None, 61000, 58000, 85)

\* The price the risk cycles of the instances are quoted.
ProfitablePrice == 72500

NoDecision == TradingDecision("none", "none", None, 0, 0, 0)

NoEval ==
    NoAction([id |-> None, exchange_symbol |-> "none", exchange_instrument_id |-> None,
              quantity |-> 0], None, 0, None, "none")

Idle ==
    [pc |-> "idle", kind |-> "none", decision |-> NoDecision, t |-> None, key |-> <<>>,
     instrument |-> None, eval |-> NoEval, ret |-> None, outcome |-> "pending",
     waited |-> FALSE, bypassed |-> FALSE]

\* The row _execute_decision inserts for a decision.
OrderToInsert(ords, account, decision, key, instrument) ==
    [id |-> Len(ords) + 1,
     account_id |-> account,
     exchange_instrument_id |-> instrument,
     idempotency_key |-> key,
     side |-> decision.side,
     type |-> "market",
     status |-> "NEW",
     quantity |-> PlaceholderQuantity,
     price |-> None]

\* ExecutionAgent.run(decision) up to the INSERT: the idempotency key is
\* derived from the clock and the instrument is looked up.
SignalBegin(p, decision) ==
    /\ placers[p].pc = "idle"
    /\ GetExchangeInstrumentId(decision.symbol, "none") # None
    /\ placers' = [placers EXCEPT ![p] =
                      [Idle EXCEPT !.pc = "inserting", !.kind = "signal",
                                   !.decision = decision, !.t = now,
                                   !.key = GenerateIdempotencyKey(AccountId, decision, now),
                                   !.instrument = GetExchangeInstrumentId(decision.symbol, "none")]]
    /\ last' = [op |-> "signal_begin", instance |-> p]
    /\ UNCHANGED <<pipeline, r_call, notifiers, inbound_alerts, delivered>>

\* RiskAgent.run up to the INSERT of the closing order: the first active
\* position is evaluated at the quoted price, the triggered rule is a
\* close_partial, and the closing decision, its key and its instrument are
\* computed.
RiskBegin(p) ==
    /\ placers[p].pc = "idle"
    /\ GetActivePositions(positions, AccountId, "none") # <<>>
    /\ LET position == GetActivePositions(positions, AccountId, "none")[1]
           risk == Abs(position.average_entry_price - InitialStopLoss(position))
           profit == ProfitPerUnit(position, ProfitablePrice)
           triggered == FirstTriggered(SortedByProfitR(risk_rules), profit, risk)
       IN  /\ risk # 0
           /\ triggered # <<>>
           /\ triggered[1].action = "close_partial"
           /\ LET rule == triggered[1]
                  close_qty == (position.quantity * rule.percentage) \div PercentScale
                  close_side == IF position.quantity > 0 THEN "sell" ELSE "buy"
                  decision == TradingDecision(position.exchange_symbol, close_side,
                                              close_qty, 0, 0, 100)
                  instrument == GetExchangeInstrumentId(decision.symbol, "none")
              IN  /\ instrument # None
                  /\ placers' = [placers EXCEPT ![p] =
                        [Idle EXCEPT !.pc = "inserting", !.kind = "risk",
                                     !.decision = decision, !.t = now,
                                     !.key = GenerateIdempotencyKey(AccountId, decision, now),
                                     !.instrument = instrument,
                                     !.eval = [NoAction(position, ProfitablePrice, profit, risk,
                                                        "dispatched")
                                                  EXCEPT !.rule = rule.name,
                                                         !.action = rule.action,
                                                         !.close_qty = close_qty,
                                                         !.close_side = close_side]]]
    /\ last' = [op |-> "risk_begin", instance |-> p]
    /\ UNCHANGED <<pipeline, r_call, notifiers, inbound_alerts, delivered>>

\* Another instance holds an inserted, not yet committed row with the key.
HeldByOther(p) ==
    \E q \in Instances \ {p} :
        placers[q].pc = "inserted" /\ placers[q].key = placers[p].key

\* The INSERT finds an uncommitted row with its key: the statement waits for
\* the end of that row's transaction.
PlaceWait(p) ==
    /\ placers[p].pc = "inserting"
    /\ HeldByOther(p)
    /\ placers' = [placers EXCEPT ![p].pc = "waiting", ![p].waited = TRUE]
    /\ last' = [op |-> "place_wait", instance |-> p]
    /\ UNCHANGED <<pipeline, r_call, notifiers, inbound_alerts, delivered>>

\* The INSERT as the store decides it against the committed rows: a
\* uniqueness conflict is caught, rolled back and answered with None;
\* otherwise the row is held by the open transaction.
PlaceInsert(p) ==
    /\ placers[p].pc \in {"inserting", "waiting"}
    /\ ~HeldByOther(p)
    /\ LET me == placers[p]
           row == OrderToInsert(orders, AccountId, me.decision, me.key, me.instrument)
           res == StoreInsertOrder(orders, row, "none")
       IN  placers' = [placers EXCEPT ![p] =
               IF res.status = "unique_violation"
               THEN [me EXCEPT !.pc = "done", !.ret = None, !.outcome = "duplicate"]
               ELSE [me EXCEPT !.pc = "inserted",
                               !.bypassed = \E o \in Range(orders) :
                                                o.idempotency_key = me.key]]
    /\ last' = [op |-> "place_insert", instance |-> p]
    /\ UNCHANGED <<pipeline, r_call, notifiers, inbound_alerts, delivered>>

\* The commit of the INSERT and the return of the order id; the id of a row
\* is its place in the order of the commits.
PlaceCommit(p) ==
    /\ placers[p].pc = "inserted"
    /\ LET me == placers[p]
           row == OrderToInsert(orders, AccountId, me.decision, me.key, me.instrument)
       IN  /\ orders' = Append(orders, row)
           /\ placed' = Append(placed, [decision |-> me.decision, t |-> me.t])
           /\ placers' = [placers EXCEPT ![p] =
                   [me EXCEPT !.pc = IF me.kind = "risk" THEN "ledger" ELSE "done",
                              !.ret = row.id, !.outcome = "inserted",
                              !.eval = [@ EXCEPT !.order_id = row.id, !.outcome = "inserted"]]]
    /\ last' = [op |-> "place_commit", instance |-> p]
    /\ UNCHANGED <<now, positions, transactions, notification_outbox,
                   system_configuration, config_cache, cache_expiry, risk_rules, r_call, notifiers,
                   inbound_alerts, delivered>>

\* Step 4 of the risk action of an instance.
RiskLedger(p) ==
    /\ placers[p].pc = "ledger"
    /\ LET me == placers[p]
           S == LogRiskTransaction([transactions |-> transactions], me.ret,
                                   [name |-> me.eval.rule], me.eval.close_qty, now, "none")
       IN  /\ transactions' = S.transactions
           /\ placers' = [placers EXCEPT ![p].pc = "notify", ![p].eval.ledger = TRUE]
    /\ last' = [op |-> "risk_ledger", instance |-> p]
    /\ UNCHANGED <<now, orders, placed, positions, notification_outbox,
                   system_configuration, config_cache, cache_expiry, risk_rules, r_call, notifiers,
                   inbound_alerts, delivered>>

\* Step 5 of the risk action of an instance.
RiskNotify(p) ==
    /\ placers[p].pc = "notify"
    /\ LET me == placers[p]
           S == EnqueueRiskNotification([outbox |-> notification_outbox],
                    [id |-> me.eval.position_id, exchange_symbol |-> me.eval.symbol],
                    [name |-> me.eval.rule], me.eval.close_qty, me.eval.profit,
                    me.eval.risk, me.ret, now, "none")
       IN  /\ notification_outbox' = S.outbox
           /\ placers' = [placers EXCEPT ![p].pc = "done", ![p].eval.notified = TRUE]
    /\ last' = [op |-> "risk_notify", instance |-> p]
    /\ UNCHANGED <<now, orders, placed, positions, transactions,
                   system_configuration, config_cache, cache_expiry, risk_rules, r_call, notifiers,
                   inbound_alerts, delivered>>

----------------------------------------------------------------------------
(* NotifyWorker (app/agents/notification.py) *)

MAX_RETRIES == 5
BASE_BACKOFF_SECONDS == 60
BatchLimit == 10

Workers == {"w1", "w2"}

\* telegram_chats: the chats the producers address, both enabled.
telegram_chats ==
    << [chat_id |-> RiskChatId, min_severity |-> "INFO", enabled |-> TRUE],
       [chat_id |-> AdminChatId, min_severity |-> "WARN", enabled |-> TRUE] >>

\* The order of the values of the severity type.
SeverityRank(severity) ==
    CASE severity = "INFO" -> 1
      [] severity = "WARN" -> 2
      [] severity = "CRITICAL" -> 3

NotRunning == [pc |-> "idle", batch |-> <<>>, next |-> 1, updated |-> <<>>]

\* The rows whose lock is held by the open transaction of a worker other
\* than w.
LockedByOthers(w) ==
    UNION { { n.id : n \in Range(notifiers[v].batch) } : v \in Workers \ {w} }

Min(a, b) == IF a < b THEN a ELSE b

Due(n, t) ==
    /\ n.status = "PENDING"
    /\ (n.send_after = None \/ n.send_after <= t)
    /\ \E tc \in Range(telegram_chats) :
          /\ tc.chat_id = n.chat_id
          /\ tc.enabled
          /\ SeverityRank(n.severity) >= SeverityRank(tc.min_severity)

Selected(rows) ==
    [i \in 1..Min(Len(rows), BatchLimit) |->
        [id |-> rows[i].id, chat_id |-> rows[i].chat_id, title |-> rows[i].title,
         message |-> rows[i].message, fail_count |-> rows[i].fail_count]]

\* _get_pending_notifications: the due rows in the order of their creation.
GetPendingNotificationsLocked(outbox, t, locked) ==
    Selected(SelectSeq(outbox, LAMBDA n : Due(n, t)))

GetPendingNotifications(outbox, t, locked) ==
    Selected(SelectSeq(outbox, LAMBDA n : Due(n, t) /\ n.id \notin locked))

RECURSIVE Pow2(_)
Pow2(k) == IF k = 0 THEN 1 ELSE 2 * Pow2(k - 1)

\* The status update that gives up one failure later.
UpdateNotificationStatusLateFailure(n, success, t) ==
    IF success
    THEN [n EXCEPT !.status = "SENT", !.sent_at = t]
    ELSE LET fail_count == n.fail_count
         IN  IF fail_count >= MAX_RETRIES
             THEN [n EXCEPT !.status = "FAILED", !.fail_count = @ + 1, !.send_after = None]
             ELSE [n EXCEPT !.status = "PENDING", !.fail_count = @ + 1,
                            !.send_after = t + BASE_BACKOFF_SECONDS * Pow2(fail_count)]

\* _update_notification_status(notification_id, success) on the row as the
\* transaction sees it.
UpdateNotificationStatus(n, success, t) ==
    IF success
    THEN [n EXCEPT !.status = "SENT", !.sent_at = t]
    ELSE LET fail_count == n.fail_count
         IN  IF fail_count + 1 >= MAX_RETRIES
             THEN [n EXCEPT !.status = "FAILED", !.fail_count = @ + 1, !.send_after = None]
             ELSE [n EXCEPT !.status = "PENDING", !.fail_count = @ + 1,
                            !.send_after = t + BASE_BACKOFF_SECONDS * Pow2(fail_count)]

\* run up to the loop: the transaction begins and the batch is selected and
\* locked; with nothing to send the run returns.
NotifyBegin(w) ==
    /\ notifiers[w].pc = "idle"
    /\ LET batch == GetPendingNotifications(notification_outbox, now, LockedByOthers(w))
       IN  /\ notifiers' = [notifiers EXCEPT ![w] =
                   IF batch = <<>> THEN NotRunning
                   ELSE [pc |-> "sending", batch |-> batch, next |-> 1, updated |-> <<>>]]
           /\ last' = [op |-> "notify_begin", worker |-> w,
                       picked |-> { n.id : n \in Range(batch) }]
    /\ UNCHANGED <<pipeline, r_call, placers, inbound_alerts, delivered>>

\* One pass of the loop: the message is sent, or not, and the row updated
\* inside the transaction.
NotifySend(w, success) ==
    /\ notifiers[w].pc = "sending"
    /\ notifiers[w].next <= Len(notifiers[w].batch)
    /\ LET notif == notifiers[w].batch[notifiers[w].next]
       IN  /\ notifiers' = [notifiers EXCEPT
               ![w].next = @ + 1,
               ![w].updated = Append(@, UpdateNotificationStatus(
                                  notification_outbox[notif.id], success, now))]
           /\ delivered' = IF success THEN delivered \cup {notif.id} ELSE delivered
           /\ last' = [op |-> "notify_send", worker |-> w, success |-> success,
                       id |-> notif.id]
    /\ UNCHANGED <<pipeline, r_call, placers, inbound_alerts>>

\* The end of the loop: the transaction commits and the locks are released.
NotifyCommit(w) ==
    /\ notifiers[w].pc = "sending"
    /\ notifiers[w].next > Len(notifiers[w].batch)
    /\ notification_outbox' =
          [i \in DOMAIN notification_outbox |->
              IF \E u \in Range(notifiers[w].updated) : u.id = i
              THEN CHOOSE u \in Range(notifiers[w].updated) : u.id = i
              ELSE notification_outbox[i]]
    /\ notifiers' = [notifiers EXCEPT ![w] = NotRunning]
    /\ last' = [op |-> "notify_commit", worker |-> w]
    /\ UNCHANGED <<now, orders, placed, positions, transactions,
                   system_configuration, config_cache, cache_expiry, risk_rules,
                   r_call, placers, inbound_alerts, delivered>>

\* A database error inside the transaction: the updates are rolled back and
\* the locks released.
NotifyAbort(w) ==
    /\ notifiers[w].pc = "sending"
    /\ notifiers' = [notifiers EXCEPT ![w] = NotRunning]
    /\ last' = [op |-> "notify_abort", worker |-> w]
    /\ UNCHANGED <<pipeline, r_call, placers, inbound_alerts, delivered>>

\* The producers of the outbox: the notification of a risk action for an
\* order, and the alert of the guardrail.
ProduceRiskNotification(order_id) ==
    /\ Len(notification_outbox) < MaxNotifications
    /\ LET S == EnqueueRiskNotification([outbox |-> notification_outbox],
                    [id |-> 1, exchange_symbol |-> "ETHUSDT"],
                    [name |-> "partial_profit_1R"],
                    PlaceholderQuantity \div 4, 7500, 5000, order_id, now, "none")
       IN  /\ S.outbox # notification_outbox
           /\ notification_outbox' = S.outbox
    /\ last' = [op |-> "produce", severity |-> "INFO"]
    /\ UNCHANGED <<now, orders, placed, positions, transactions,
                   system_configuration, config_cache, cache_expiry, risk_rules, others>>

ProduceCritical ==
    /\ Len(notification_outbox) < MaxNotifications
    /\ LET outbox == EnqueueNotification(notification_outbox, AdminChatId, "CRITICAL",
                                         <<"TRADING HALTED">>, <<"daily">>,
                                         LossLimitDedupeKey(now), now)
       IN  /\ outbox # notification_outbox
           /\ notification_outbox' = outbox
    /\ last' = [op |-> "produce", severity |-> "CRITICAL"]
    /\ UNCHANGED <<now, orders, placed, positions, transactions,
                   system_configuration, config_cache, cache_expiry, risk_rules, others>>

----------------------------------------------------------------------------
(* calculate_r_multiple (app/agents/risk.py) *)

\* What a call returned: a number, None, or an error raised.  The float
\* quotient of two whole prices is modelled by the fraction in lowest terms
\* with a positive denominator, so that equal quotients are equal values.
Pending == [kind |-> "pending", num |-> 0, den |-> 1]

NoValue == [kind |-> "none", num |-> 0, den |-> 1]

ZeroDivisionError == [kind |-> "raised", num |-> 0, den |-> 1]

RECURSIVE GCD(_, _)
GCD(a, b) == IF b = 0 THEN a ELSE GCD(b, a % b)

Divide(n, d) ==
    IF d = 0 THEN ZeroDivisionError
    ELSE LET g == GCD(Abs(n), Abs(d))
             sign == IF d < 0 THEN -1 ELSE 1
         IN  [kind |-> "value", num |-> (sign * n) \div g, den |-> (sign * d) \div g]

CalculateRMultipleSignedRisk(entry_price, current_price, stop_loss_price, side) ==
    LET initial_risk_per_unit == entry_price - stop_loss_price
    IN  IF initial_risk_per_unit = 0 THEN NoValue
        ELSE IF side = "buy"
        THEN Divide(current_price - entry_price, initial_risk_per_unit)
        ELSE IF side = "sell"
        THEN Divide(entry_price - current_price, initial_risk_per_unit)
        ELSE NoValue

CalculateRMultipleNoZeroCheck(entry_price, current_price, stop_loss_price, side) ==
    LET initial_risk_per_unit == Abs(entry_price - stop_loss_price)
    IN  IF side = "buy"
        THEN Divide(current_price - entry_price, initial_risk_per_unit)
        ELSE IF side = "sell"
        THEN Divide(entry_price - current_price, initial_risk_per_unit)
        ELSE NoValue

CalculateRMultipleIgnoresSide(entry_price, current_price, stop_loss_price, side) ==
    LET initial_risk_per_unit == Abs(entry_price - stop_loss_price)
    IN  IF initial_risk_per_unit = 0 THEN NoValue
        ELSE IF side \in {"buy", "sell"}
        THEN Divide(current_price - entry_price, initial_risk_per_unit)
        ELSE NoValue

\* calculate_r_multiple(entry_price, current_price, stop_loss_price, side)
CalculateRMultiple(entry_price, current_price, stop_loss_price, side) ==
    LET initial_risk_per_unit == Abs(entry_price - stop_loss_price)
    IN  IF initial_risk_per_unit = 0 THEN NoValue
        ELSE IF side = "buy"
        THEN Divide(current_price - entry_price, initial_risk_per_unit)
        ELSE IF side = "sell"
        THEN Divide(entry_price - current_price, initial_risk_per_unit)
        ELSE NoValue

\* The prices of the unit tests' scenarios, and the sides: the two members of
\* TradeSide and a value that is none of them.
RPrices == {75, 90, 95, 100, 105, 110, 125}

RSides == {"buy", "sell", "hold"}

OppositeSide(side) == IF side = "buy" THEN "sell" ELSE IF side = "sell" THEN "buy" ELSE side

NoCall ==
    [entry_price |-> 0, current_price |-> 0, stop_loss_price |-> 0, side |-> "none",
     result |-> Pending, mirrored |-> Pending, opposite |-> Pending]

RCalls ==
    { [entry_price |-> e, current_price |-> c, stop_loss_price |-> sl, side |-> sd,
       result |-> Pending, mirrored |-> Pending, opposite |-> Pending] :
        e \in RPrices, c \in RPrices, sl \in RPrices, sd \in RSides }

\* The call with the arguments drawn.
CallRMultiple ==
    /\ r_call.side \in RSides
    /\ r_call.result = Pending
    /\ r_call' = [r_call EXCEPT !.result =
                     CalculateRMultiple(r_call.entry_price, r_call.current_price,
                                        r_call.stop_loss_price, r_call.side)]
    /\ last' = [op |-> "r_multiple"]
    /\ UNCHANGED <<pipeline, placers, notifiers, inbound_alerts, delivered>>

\* The call for the other side with the current price reflected around the
\* entry price.
CallRMultipleMirrored ==
    /\ r_call.side \in RSides
    /\ r_call.mirrored = Pending
    /\ r_call' = [r_call EXCEPT !.mirrored =
                     CalculateRMultiple(r_call.entry_price,
                                        2 * r_call.entry_price - r_call.current_price,
                                        r_call.stop_loss_price, OppositeSide(r_call.side))]
    /\ last' = [op |-> "r_multiple_mirrored"]
    /\ UNCHANGED <<pipeline, placers, notifiers, inbound_alerts, delivered>>

\* The call for the other side at the same current price.
CallRMultipleOpposite ==
    /\ r_call.side \in RSides
    /\ r_call.opposite = Pending
    /\ r_call' = [r_call EXCEPT !.opposite =
                     CalculateRMultiple(r_call.entry_price, r_call.current_price,
                                        r_call.stop_loss_price, OppositeSide(r_call.side))]
    /\ last' = [op |-> "r_multiple_opposite"]
    /\ UNCHANGED <<pipeline, placers, notifiers, inbound_alerts, delivered>>

----------------------------------------------------------------------------

DefaultRules ==
    << [name |-> "partial_profit_1R", profit_r |-> 10, action |-> "close_partial", percentage |-> 25],
       [name |-> "breakeven_2R", profit_r |-> 20, action |-> "move_sl_to_be", percentage |-> None],
       [name |-> "trailing_stop_3R", profit_r |-> 30, action |-> "trail_sl", percentage |-> None] >>

StopLossRule ==
    [name |-> "stop_loss", profit_r |-> -10, action |-> "close_full", percentage |-> None]

RuleTables == { DefaultRules, Append(DefaultRules, StopLossRule) }

InitPipeline ==
    /\ now = 0
    /\ orders = <<>>
    /\ placed = <<>>
    /\ positions = <<>>
    /\ transactions = <<>>
    /\ notification_outbox = <<>>
    /\ system_configuration = [is_trading_enabled |-> TRUE,
                               daily_loss_limit_usd |-> 500,
                               weekly_loss_limit_usd |-> 500]
    /\ config_cache = <<>>
    /\ cache_expiry = None
    /\ risk_rules \in RuleTables
    /\ last = [op |-> "init"]

Init ==
    /\ InitPipeline
    /\ r_call = NoCall
    /\ placers = [p \in Instances |-> Idle]
    /\ notifiers = [w \in Workers |-> NotRunning]
    /\ inbound_alerts = <<>>
    /\ delivered = {}

\* The calculator called with every combination of the arguments.
InitR ==
    /\ InitPipeline
    /\ r_call \in RCalls
    /\ placers = [p \in Instances |-> Idle]
    /\ notifiers = [w \in Workers |-> NotRunning]
    /\ inbound_alerts = <<>>
    /\ delivered = {}

NextR == CallRMultiple \/ CallRMultipleMirrored \/ CallRMultipleOpposite

SpecR == InitR /\ [][NextR]_vars

\* The trading pipeline within one minute: signals, fills and risk cycles
\* with every failure of a risk action.
Next ==
    \/ \E decision \in ListedSignals : ExecRun(decision, "none")
    \/ \E i \in 1..MaxOrders : Fill(i)
    \/ \E prices \in PriceFeeds, fault \in TradeFaults : RiskRun(prices, fault)

Spec == Init /\ [][Next]_vars

\* Order placement alone, with every failure of the store, seconds and
\* minutes apart.
NextExec ==
    \/ \E d \in {SubMinuteStep, MinuteSeconds} : Tick(d)
    \/ \E decision \in Signals, fault \in ExecFaults : ExecRun(decision, fault)
    \/ \E i \in 1..MaxOrders : Fill(i)

SpecExec == Init /\ [][NextExec]_vars

\* The guardrail: realized PnL, days, the operator, risk cycles and the
\* signals that keep arriving.
NextGuard ==
    \/ \E d \in TickSteps : Tick(d)
    \/ \E prices \in PriceFeeds, fault \in GuardFaults : RiskRun(prices, fault)
    \/ \E amount \in PnlAmounts : RecordPnl(amount)
    \/ \E status \in BOOLEAN : OperatorSetTrading(status)
    \/ \E decision \in {EndToEndSignal} : ExecRun(decision, "none")

SpecGuard == Init /\ [][NextGuard]_vars

\* The configuration service: reads and writes by the process, writes by an
\* operator from outside, seconds and minutes apart.
NextConfig ==
    \/ \E d \in {SubMinuteStep, MinuteSeconds} : Tick(d)
    \/ \E fault \in ConfigFaults : ReadConfiguration(fault)
    \/ \E status \in BOOLEAN, fault \in FlagFaults : WriteTradingEnabled(status, fault)
    \/ \E status \in BOOLEAN : OperatorSetTrading(status)

SpecConfig == Init /\ [][NextConfig]_vars

\* Time passes until the instant the cache expires.
AwaitCacheExpiry ==
    /\ cache_expiry # None
    /\ now < cache_expiry
    /\ cache_expiry <= MaxSecond
    /\ now' = cache_expiry
    /\ last' = [op |-> "await"]
    /\ UNCHANGED <<orders, placed, positions, transactions, notification_outbox,
                   system_configuration, config_cache, cache_expiry, risk_rules, others>>

\* The configuration service read before, at and after the expiry of its
\* cache.
NextTtl ==
    \/ \E d \in {SubMinuteStep, MinuteSeconds} : Tick(d)
    \/ AwaitCacheExpiry
    \/ \E fault \in ConfigFaults : ReadConfiguration(fault)
    \/ \E status \in BOOLEAN, fault \in FlagFaults : WriteTradingEnabled(status, fault)
    \/ \E status \in BOOLEAN : OperatorSetTrading(status)

SpecTtl == Init /\ [][NextTtl]_vars

\* Two open positions, one on each instrument, opened at 65000 by filled buy
\* orders whose stop-loss was 60000 or the fill price itself.
OpeningStops == {60000, FillPrice("buy")}

OpeningSignal(instrument, sl) ==
    TradingDecision(InstrumentRow(instrument).symbol, "buy", None, sl, 80000, 90)

FilledOrder(id, instrument, sl) ==
    [OrderToInsert(<<>>, AccountId, OpeningSignal(instrument, sl),
                   GenerateIdempotencyKey(AccountId, OpeningSignal(instrument, sl), 0),
                   instrument)
        EXCEPT !.id = id, !.status = "FILLED"]

TradeRow(o) ==
    [id |-> o.id, account_id |-> o.account_id, related_order_id |-> o.id,
     transaction_type |-> <<"TRADE">>, amount |-> o.quantity, timestamp |-> 0]

InitTwoPositions ==
    /\ now = 0
    /\ \E first \in {1, 2}, sl1 \in OpeningStops, sl2 \in OpeningStops :
          LET o1 == FilledOrder(1, first, sl1)
              o2 == FilledOrder(2, 3 - first, sl2)
          IN  /\ orders = <<o1, o2>>
              /\ placed = <<[decision |-> OpeningSignal(first, sl1), t |-> 0],
                            [decision |-> OpeningSignal(3 - first, sl2), t |-> 0]>>
              /\ positions = UpsertPosition(UpsertPosition(<<>>, o1, sl1), o2, sl2)
              /\ transactions = <<TradeRow(o1), TradeRow(o2)>>
    /\ notification_outbox = <<>>
    /\ system_configuration = [is_trading_enabled |-> TRUE,
                               daily_loss_limit_usd |-> 500,
                               weekly_loss_limit_usd |-> 500]
    /\ config_cache = <<>>
    /\ cache_expiry = None
    /\ risk_rules \in RuleTables
    /\ r_call = NoCall
    /\ placers = [p \in Instances |-> Idle]
    /\ notifiers = [w \in Workers |-> NotRunning]
    /\ inbound_alerts = <<>>
    /\ delivered = {}
    /\ last = [op |-> "init"]

\* The price source answers each symbol with None or with a price: R is 1.5
\* at 72500, 2.4 at 77000 and 3.4 at 82000 for an entry at 65000 with the
\* stop-loss at 60000.
AnsweredPrices == {None, ProfitablePrice, 77000, 82000}

AnsweredFeeds == [ExchangeSymbols -> AnsweredPrices]

\* The failures of the steps of a risk action.
AnsweredFaults == {"none", "db_error", "ledger", "notify"}

\* Risk cycles over the two positions, seconds and minutes apart.
NextTwoPositions ==
    \/ \E d \in {SubMinuteStep, MinuteSeconds} : Tick(d)
    \/ \E prices \in AnsweredFeeds, fault \in AnsweredFaults :
          RiskRunWithin(prices, fault, MaxCycleOrders)

SpecTwoPositions == InitTwoPositions /\ [][NextTwoPositions]_vars

\* One open ETHUSDT position, long or short, whose initial stop-loss is set
\* (the stop of the opening signal) or unset, under a rule table whose
\* close_partial rule carries any percentage: missing, zero, negative, a
\* quarter, the whole, more than the whole.
ClosePercentages == {None, 0, -25, 25, 100, 150}

PartialRule(percentage) == [DefaultRules[1] EXCEPT !.percentage = percentage]

PercentageRuleTables ==
    { <<PartialRule(percentage), DefaultRules[2], DefaultRules[3]>> :
        percentage \in ClosePercentages }

PositionSignal(side) == IF side = "buy" THEN EthBuySignal ELSE EthSellSignal

PositionOrder(side) ==
    [OrderToInsert(<<>>, AccountId, PositionSignal(side),
                   GenerateIdempotencyKey(AccountId, PositionSignal(side), 0), 2)
        EXCEPT !.id = 1, !.status = "FILLED"]

InitOpenPosition ==
    /\ now = 0
    /\ \E side \in {"buy", "sell"} :
          /\ orders = <<PositionOrder(side)>>
          /\ placed = <<[decision |-> PositionSignal(side), t |-> 0]>>
          /\ \E sl \in {None, PositionSignal(side).stop_loss} :
                positions = UpsertPosition(<<>>, PositionOrder(side), sl)
          /\ transactions = <<TradeRow(PositionOrder(side))>>
    /\ notification_outbox = <<>>
    /\ system_configuration = [is_trading_enabled |-> TRUE,
                               daily_loss_limit_usd |-> 500,
                               weekly_loss_limit_usd |-> 500]
    /\ config_cache = <<>>
    /\ cache_expiry = None
    /\ risk_rules \in PercentageRuleTables
    /\ r_call = NoCall
    /\ placers = [p \in Instances |-> Idle]
    /\ notifiers = [w \in Workers |-> NotRunning]
    /\ inbound_alerts = <<>>
    /\ delivered = {}
    /\ last = [op |-> "init"]

\* The prices quoted for ETHUSDT: for the long position (entry 65000) R is
\* 1.5 at 67000 with the synthesized stop and 1.5 at 72500 with the stop at
\* 60000; for the short position (entry 60000) R is 1.25 or 1.5 at 58500 and
\* 2.5 or 3.0 at 57000.
OpenPositionPrices == {None, 57000, 58500, 67000, ProfitablePrice}

OpenPositionFeeds ==
    { f \in [ExchangeSymbols -> OpenPositionPrices] : f["BTCUSD"] = None }

\* Risk cycles over the position, seconds and minutes apart.
NextOpenPosition ==
    \/ \E d \in {SubMinuteStep, MinuteSeconds} : Tick(d)
    \/ \E prices \in OpenPositionFeeds, fault \in AnsweredFaults :
          RiskRunWithin(prices, fault, MaxCycleOrders)

SpecOpenPosition == InitOpenPosition /\ [][NextOpenPosition]_vars

\* Signals for ETHUSDT that differ in side, stop-loss, quantity and
\* confidence, placed seconds and minutes apart.
KeySignals ==
    { TradingDecision("ETHUSDT", side, quantity, sl, 80000, confidence) :
        side \in {"buy", "sell"}, quantity \in {None, 2000}, sl \in {60000, 61000},
        confidence \in {50, 90} }

NextKeys ==
    \/ \E d \in {SubMinuteStep, MinuteSeconds} : Tick(d)
    \/ \E decision \in KeySignals : ExecRun(decision, "none")

SpecKeys == Init /\ [][NextKeys]_vars

\* The webhook: a TradingView alert is stored, adapted to a decision and
\* placed through _execute_decision on the connection of the request.
PercentageSl == 3

ConfidenceThreshold == 70

PlacementFailedMessage == "ExecutionAgent failed to create an order. Check logs for details."

TradingViewAlert(symbol, side, qty, price, idempotency_key) ==
    [symbol |-> symbol, side |-> side, qty |-> qty, price |-> price,
     idempotency_key |-> idempotency_key]

Alerts ==
    { TradingViewAlert(symbol, "buy", PlaceholderQuantity, 65000, key) :
        symbol \in {"ETHUSDT", "DOGE/USD"}, key \in {"tv_key_1", "tv_key_2", "tv_key_3"} }

\* adapt_alert_to_decision: the stop-loss is percentage_sl percent from the
\* price, the take-profit one and a half times that distance on the other side.
AdaptAlertToDecision(alert) ==
    LET stop_loss == IF alert.side = "buy"
                     THEN (alert.price * (100 - PercentageSl)) \div 100
                     ELSE (alert.price * (100 + PercentageSl)) \div 100
        take_profit == IF alert.side = "buy"
                       THEN alert.price + ((alert.price - stop_loss) * 3) \div 2
                       ELSE alert.price - ((stop_loss - alert.price) * 3) \div 2
    IN  TradingDecision(alert.symbol, alert.side, alert.qty, stop_loss, take_profit,
                        ConfidenceThreshold)

InboundAlertRow(alert, parsed, error) ==
    [source |-> "tradingview", dedupe_key |-> alert.idempotency_key, payload |-> alert,
     parsed |-> parsed, error |-> error]

\* The rows of inbound_alerts after the request, whose transaction holds the
\* INSERT of step 1 when _execute_decision is called. A placement that
\* inserts the order commits the transaction, and step 5 sets parsed. A
\* placement that finds no instrument leaves the transaction open, and step 5
\* sets error. A placement whose INSERT fails rolls the transaction back, and
\* with it the row of step 1: the UPDATE of step 5 matches no row. A failed
\* lookup leaves the transaction aborted: step 5 raises and nothing is
\* committed.
AlertsAfterPlacement(alerts, alert, res, fault) ==
    IF res.ret # None
    THEN Append(alerts, InboundAlertRow(alert, TRUE, ""))
    ELSE IF res.outcome = "no_instrument" /\ fault # "lookup_error"
    THEN Append(alerts, InboundAlertRow(alert, FALSE, PlacementFailedMessage))
    ELSE alerts

\* POST /tradingview
TradingviewWebhook(alert, fault) ==
    IF \E a \in Range(inbound_alerts) : a.dedupe_key = alert.idempotency_key
    THEN /\ last' = [op |-> "webhook", alert |-> alert, status |-> "duplicate",
                     order_id |-> None, outcome |-> "unique_violation"]
         /\ UNCHANGED <<pipeline, others>>
    ELSE \E res \in {ExecuteDecision(orders, AccountId, AdaptAlertToDecision(alert),
                                     now, fault)} :
            /\ Len(res.orders) <= MaxOrders
            /\ orders' = res.orders
            /\ placed' = Record(placed, res, AdaptAlertToDecision(alert), now)
            /\ inbound_alerts' = AlertsAfterPlacement(inbound_alerts, alert, res, fault)
            /\ last' = [op |-> "webhook", alert |-> alert,
                        status |-> IF res.outcome = "no_instrument" /\ fault = "lookup_error"
                                   THEN "error" ELSE "ok",
                        order_id |-> res.ret, outcome |-> res.outcome]
            /\ UNCHANGED <<now, positions, transactions, notification_outbox,
                           system_configuration, config_cache, cache_expiry, risk_rules,
                           r_call, placers, notifiers, delivered>>

\* Webhook requests with every failure of the placement, seconds and
\* minutes apart.
NextWebhook ==
    \/ \E d \in {SubMinuteStep, MinuteSeconds} : Tick(d)
    \/ \E alert \in Alerts, fault \in ExecFaults : TradingviewWebhook(alert, fault)

SpecWebhook == Init /\ [][NextWebhook]_vars

\* A statement against the rows of the ledger as the store decides it: the
\* trigger on transactions raises on every UPDATE and DELETE.
LedgerStatements == {"UPDATE", "DELETE"}

StoreWriteTransaction(ledger, statement, i) ==
    IF statement \in LedgerStatements
    THEN [status |-> "raise_exception", transactions |-> ledger]
    ELSE [status |-> "ok", transactions |-> ledger]

\* An UPDATE or DELETE of a ledger row issued against the store.
LedgerWrite(statement, i) ==
    /\ i \in DOMAIN transactions
    /\ \E res \in {StoreWriteTransaction(transactions, statement, i)} :
          /\ transactions' = res.transactions
          /\ last' = [op |-> "ledger_write", statement |-> statement, row |-> i,
                      status |-> res.status]
    /\ UNCHANGED <<now, orders, placed, positions, notification_outbox,
                   system_configuration, config_cache, cache_expiry, risk_rules, others>>

\* The ledger under the core operations and under statements that try to
\* change its rows.
NextLedger ==
    \/ \E decision \in ListedSignals : ExecRun(decision, "none")
    \/ \E i \in 1..MaxOrders : Fill(i)
    \/ \E prices \in PriceFeeds, fault \in TradeFaults : RiskRun(prices, fault)
    \/ \E statement \in LedgerStatements, i \in DOMAIN transactions : LedgerWrite(statement, i)

SpecLedger == Init /\ [][NextLedger]_vars

\* The pipeline after the position was opened: the ETHUSDT buy signal was
\* placed and its order filled.
OpenedOrder == ExecuteDecision(<<>>, AccountId, EthBuySignal, 0, "none").orders[1]

InitConc ==
    /\ now = 0
    /\ orders = <<[OpenedOrder EXCEPT !.status = "FILLED"]>>
    /\ placed = <<[decision |-> EthBuySignal, t |-> 0]>>
    /\ positions = UpsertPosition(<<>>, OpenedOrder, EthBuySignal.stop_loss)
    /\ transactions = <<[id |-> 1,
                         account_id |-> AccountId,
                         related_order_id |-> 1,
                         transaction_type |-> <<"TRADE">>,
                         amount |-> OpenedOrder.quantity,
                         timestamp |-> 0]>>
    /\ notification_outbox = <<>>
    /\ system_configuration = [is_trading_enabled |-> TRUE,
                               daily_loss_limit_usd |-> 500,
                               weekly_loss_limit_usd |-> 500]
    /\ config_cache = <<>>
    /\ cache_expiry = None
    /\ risk_rules \in RuleTables
    /\ r_call = NoCall
    /\ placers = [p \in Instances |-> Idle]
    /\ notifiers = [w \in Workers |-> NotRunning]
    /\ inbound_alerts = <<>>
    /\ delivered = {}
    /\ last = [op |-> "init"]

\* Two instances, each running one signal placement or one risk cycle
\* statement by statement, and the fills of their orders, within one minute.
NextConc ==
    \/ \E d \in {SubMinuteStep} : Tick(d)
    \/ \E i \in DOMAIN orders : Fill(i)
    \/ \E p \in Instances : SignalBegin(p, EthSellSignal)
    \/ \E p \in Instances : RiskBegin(p)
    \/ \E p \in Instances : PlaceWait(p)
    \/ \E p \in Instances : PlaceInsert(p)
    \/ \E p \in Instances : PlaceCommit(p)
    \/ \E p \in Instances : RiskLedger(p)
    \/ \E p \in Instances : RiskNotify(p)

SpecConc == InitConc /\ [][NextConc]_vars

\* The outbox, its producers and two workers at one instant.
NextNotify ==
    \/ \E order_id \in 1..MaxNotifications : ProduceRiskNotification(order_id)
    \/ ProduceCritical
    \/ \E w \in Workers : NotifyBegin(w)
    \/ \E w \in Workers, success \in BOOLEAN : NotifySend(w, success)
    \/ \E w \in Workers : NotifyCommit(w)
    \/ \E w \in Workers : NotifyAbort(w)

SpecNotify == Init /\ [][NextNotify]_vars

\* The PENDING rows whose backoff has not ended.
PendingLater ==
    { n \in Range(notification_outbox) :
        n.status = "PENDING" /\ n.send_after # None /\ n.send_after > now }

\* Time passes until the earliest backoff of the outbox ends.
AwaitSendAfter ==
    /\ PendingLater # {}
    /\ now' = CHOOSE t \in { n.send_after : n \in PendingLater } :
                  \A n \in PendingLater : t <= n.send_after
    /\ last' = [op |-> "await"]
    /\ UNCHANGED <<orders, placed, positions, transactions, notification_outbox,
                   system_configuration, config_cache, cache_expiry, risk_rules, others>>

\* The worker the scheduler runs every five seconds.
ScheduledWorker == "w1"

\* The outbox after a risk action: one INFO notification for the risk chat.
PendingOutbox ==
    EnqueueRiskNotification([outbox |-> <<>>], [id |-> 1, exchange_symbol |-> "ETHUSDT"],
                            [name |-> "partial_profit_1R"], PlaceholderQuantity \div 4,
                            7500, 5000, 2, 0, "none").outbox

InitRetry ==
    /\ now = 0
    /\ orders = <<>>
    /\ placed = <<>>
    /\ positions = <<>>
    /\ transactions = <<>>
    /\ notification_outbox = PendingOutbox
    /\ system_configuration = [is_trading_enabled |-> TRUE,
                               daily_loss_limit_usd |-> 500,
                               weekly_loss_limit_usd |-> 500]
    /\ config_cache = <<>>
    /\ cache_expiry = None
    /\ risk_rules = DefaultRules
    /\ r_call = NoCall
    /\ placers = [p \in Instances |-> Idle]
    /\ notifiers = [w \in Workers |-> NotRunning]
    /\ inbound_alerts = <<>>
    /\ delivered = {}
    /\ last = [op |-> "init"]

\* The scheduled worker over the time of the retries of the notification
\* and of the alert of the guardrail, enqueued at any time, with sends that
\* fail and runs that end in a database error.
NextRetry ==
    \/ ProduceCritical
    \/ NotifyBegin(ScheduledWorker)
    \/ \E success \in BOOLEAN : NotifySend(ScheduledWorker, success)
    \/ NotifyCommit(ScheduledWorker)
    \/ NotifyAbort(ScheduledWorker)
    \/ AwaitSendAfter

SpecRetry == InitRetry /\ [][NextRetry]_vars

\* The scheduled worker while the store answers every statement of its runs.
NextDelivery ==
    \/ ProduceCritical
    \/ NotifyBegin(ScheduledWorker)
    \/ \E success \in BOOLEAN : NotifySend(ScheduledWorker, success)
    \/ NotifyCommit(ScheduledWorker)
    \/ AwaitSendAfter

\* The scheduler starts run every five seconds, a run that began goes
\* through its batch and commits, and time passes.
SpecDelivery ==
    /\ InitRetry
    /\ [][NextDelivery]_vars
    /\ WF_vars(NotifyBegin(ScheduledWorker))
    /\ WF_vars(\E success \in BOOLEAN : NotifySend(ScheduledWorker, success))
    /\ WF_vars(NotifyCommit(ScheduledWorker))
    /\ WF_vars(AwaitSendAfter)

\* Successive risk cycles, minutes apart, on the opened position, which no
\* fill changes.
NextCycles ==
    \/ \E d \in {SubMinuteStep, MinuteSeconds} : Tick(d)
    \/ \E prices \in PriceFeeds, fault \in TradeFaults :
          RiskRunWithin(prices, fault, MaxCycleOrders)

SpecCycles == InitConc /\ [][NextCycles]_vars

\* The guardrail on an account with an open position: losses booked, and
\* risk cycles with every failure of the guardrail's steps.
NextBreach ==
    \/ \E d \in {SubMinuteStep, MinuteSeconds} : Tick(d)
    \/ \E amount \in PnlAmounts : RecordPnl(amount)
    \/ \E prices \in PriceFeeds, fault \in GuardFaults :
          RiskRunWithin(prices, fault, MaxCycleOrders)

SpecBreach == InitConc /\ [][NextBreach]_vars

\* The order store under placements, fills and cancellations, seconds and
\* minutes apart.
StoreFaults == {"none", "db_error"}

NextStore ==
    \/ \E d \in {SubMinuteStep, MinuteSeconds} : Tick(d)
    \/ \E decision \in ListedSignals, fault \in StoreFaults : ExecRun(decision, fault)
    \/ \E i \in 1..MaxOrders : Fill(i)
    \/ \E i \in 1..MaxOrders : Cancel(i)

SpecStore == Init /\ [][NextStore]_vars

----------------------------------------------------------------------------
(* Properties *)

SameMinute(t1, t2) == t1 \div MinuteSeconds = t2 \div MinuteSeconds

\* The orders, ledger rows and notifications a step added.
NewOrders == SubSeq(orders', Len(orders) + 1, Len(orders'))

NewTransactions == SubSeq(transactions', Len(transactions) + 1, Len(transactions'))

NewNotifications ==
    SubSeq(notification_outbox', Len(notification_outbox) + 1, Len(notification_outbox'))

\* The evaluations of the last risk cycle for which R was computed.
Evaluated == IF last.op = "risk"
             THEN { e \in Range(last.evals) : e.risk # None /\ e.risk # 0 }
             ELSE {}

RuleNamed(name) == CHOOSE r \in Range(risk_rules) : r.name = name

RiskActionRows(ledger) ==
    SelectSeq(ledger, LAMBDA row : row.transaction_type[1] = "RISK_ACTION")

\* C1 as stated: a call of _execute_decision with a decision that already
\* created an order in the same UTC minute returns None and leaves the order
\* table unchanged, whatever happened to the first order in between.
C1_DuplicateAlwaysSuppressed ==
    [][ (/\ last'.op = "exec"
         /\ \E i \in DOMAIN placed : /\ placed[i].decision = last'.decision
                                     /\ SameMinute(placed[i].t, now))
        => (last'.ret = None /\ orders' = orders) ]_vars

\* C1 amended: a call of _execute_decision with a decision that created an
\* order in the same UTC minute, that order still being in an active status
\* (NEW), returns None and leaves the order table unchanged.
C1_ActiveDuplicateSuppressed ==
    [][ (/\ last'.op = "exec"
         /\ \E i \in DOMAIN placed : /\ placed[i].decision = last'.decision
                                     /\ SameMinute(placed[i].t, now)
                                     /\ orders[i].status \in ActiveStatuses)
        => (last'.ret = None /\ orders' = orders) ]_vars

C1_Witness ==
    /\ last.op = "exec"
    /\ last.outcome = "duplicate"
    /\ \E i \in DOMAIN placed : /\ placed[i].decision = last.decision
                                /\ SameMinute(placed[i].t, now)
                                /\ placed[i].t < now
                                /\ orders[i].status \in ActiveStatuses

\* C2: the closing order a close_partial action stores has the quantity
\* |position quantity| x percentage and the side opposite to the position.
C2_ClosingOrderQuantityAndSide ==
    last.op = "risk" =>
        \A e \in Range(last.evals) :
            (e.action = "close_partial" /\ e.order_id # None) =>
                /\ orders[e.order_id].quantity * PercentScale
                      = Abs(e.quantity) * RuleNamed(e.rule).percentage
                /\ orders[e.order_id].side = (IF e.quantity > 0 THEN "sell" ELSE "buy")

\* C3: a fault-free risk cycle over the single long position opened at 65000
\* with stop-loss 60000, at a price of 72500 (R = 1.5), adds exactly one
\* order, a SELL, exactly one RISK_ACTION ledger row and exactly one
\* notification titled with partial_profit_1R.
C3_EndToEndOneOrderLedgerNotification ==
    [][ (/\ last'.op = "risk"
         /\ Len(last'.evals) = 1
         /\ LET e == last'.evals[1]
            IN  /\ e.quantity > 0 /\ e.price = 72500
                /\ e.profit = 7500 /\ e.risk = 5000
                /\ e.outcome \notin {"duplicate", "rejected", "db_error",
                                     "ledger_failed", "notify_failed"})
        => (/\ Len(NewOrders) = 1
            /\ NewOrders[1].side = "sell"
            /\ Len(NewTransactions) = 1
            /\ NewTransactions[1].transaction_type[1] = "RISK_ACTION"
            /\ Len(NewNotifications) = 1
            /\ NewNotifications[1].title = <<"Risk Action", "partial_profit_1R">>) ]_vars

C5_LedgerFailureLeavesOrphanOrder ==
    [][ last'.op = "risk" =>
          \A e \in Range(last'.evals) :
              e.outcome = "ledger_failed" =>
                  /\ e.order_id \in (Len(orders) + 1)..Len(orders')
                  /\ orders'[e.order_id].status = "NEW"
                  /\ \A tx \in Range(transactions') : tx.related_order_id # e.order_id
                  /\ \A n \in Range(notification_outbox') :
                        n.severity = "INFO" => n.dedupe_key[4] # e.order_id
                  /\ Cardinality({ i \in DOMAIN NewOrders :
                                     NewOrders[i].exchange_instrument_id = e.instrument }) = 1
      ]_vars

C5_Witness ==
    /\ last.op = "risk"
    /\ \E e \in Range(last.evals) :
          /\ e.outcome = "ledger_failed"
          /\ e.order_id \in DOMAIN orders
          /\ RiskActionRows(transactions) = <<>>
          /\ notification_outbox = <<>>

\* C6: a risk action whose closing order was not placed (no order id came
\* back) adds no ledger row and no notification: every ledger row and every
\* notification a risk cycle adds belongs to an order id that cycle obtained.
C6_NoOrderIdNoLedgerNoNotification ==
    [][ last'.op = "risk" =>
          /\ \A i \in DOMAIN NewTransactions :
                \E e \in Range(last'.evals) :
                    /\ e.order_id # None
                    /\ NewTransactions[i].related_order_id = e.order_id
          /\ \A i \in DOMAIN NewNotifications :
                NewNotifications[i].severity = "INFO" =>
                    \E e \in Range(last'.evals) :
                        /\ e.order_id # None
                        /\ NewNotifications[i].dedupe_key
                              = <<"risk-action", e.position_id, e.rule, e.order_id>>
          /\ (\A e \in Range(last'.evals) : e.order_id = None) =>
                (transactions' = transactions /\ notification_outbox' = notification_outbox)
      ]_vars

C6_Witness ==
    /\ last.op = "risk"
    /\ \E e \in Range(last.evals) :
          /\ e.action = "close_partial"
          /\ e.outcome = "duplicate"
          /\ e.order_id = None
          /\ Len(RiskActionRows(transactions)) = 1
          /\ Len(notification_outbox) = 1

ConfigurationInEffect ==
    IF config_cache # <<>> /\ cache_expiry # None /\ now < cache_expiry
    THEN config_cache[1] ELSE system_configuration

CriticalOfDay(outbox, day) ==
    { i \in DOMAIN outbox : outbox[i].severity = "CRITICAL" /\ DayOf(outbox[i].created_at) = day }

\* C8: a risk cycle without a store failure that starts with trading enabled
\* and the realized PnL of the day below minus the daily loss limit leaves
\* is_trading_enabled false and exactly one CRITICAL notification of that
\* day; and whatever the cycles of a day do, no day has two of them.
C8_DailyBreachDisablesAndAlertsOncePerDay ==
    [][ /\ (/\ last'.op = "risk"
            /\ last'.guard.failed = "none"
            /\ ConfigurationInEffect.is_trading_enabled
            /\ GetDailyPnl(transactions, now) < -ConfigurationInEffect.daily_loss_limit_usd)
           => (/\ ~system_configuration'.is_trading_enabled
               /\ Cardinality(CriticalOfDay(notification_outbox', DayOf(now))) = 1)
        /\ \A day \in 0..DayOf(MaxNow) :
              Cardinality(CriticalOfDay(notification_outbox', day)) <= 1
      ]_vars

\* A second breach on a day that already has its alert: the operator enabled
\* trading again and the next cycle switched it off without a second alert.
C8_Witness ==
    /\ last.op = "risk"
    /\ last.guard.breached = "daily"
    /\ last.guard.flag_written
    /\ last.guard.alert
    /\ ~system_configuration.is_trading_enabled
    /\ \E n \in Range(notification_outbox) :
          /\ n.severity = "CRITICAL"
          /\ DayOf(n.created_at) = DayOf(now)
          /\ n.created_at < now

\* C9: while the stored is_trading_enabled flag is false no step inserts an
\* order.
C9_NoOrderWhileTradingDisabled ==
    [][ ~system_configuration.is_trading_enabled => Len(orders') = Len(orders) ]_vars

\* C10: with the stop-loss rule (threshold -1.0) in the table, a position
\* whose R is below -1.0 gets that rule dispatched.
C10_StopLossRuleDispatched ==
    \A e \in Evaluated :
        (/\ StopLossRule \in Range(risk_rules)
         /\ e.profit * RScale < StopLossRule.profit_r * e.risk)
        => e.rule = "stop_loss"

\* C11: in every risk cycle every active position the store returned is
\* evaluated, and no error raised while evaluating a position leaves
\* RiskAgent.run.
C11_EveryPositionEvaluatedNothingRaised ==
    last.op = "risk" => (Len(last.evals) = last.fetched /\ ~last.raised)

\* C13: when the notification enqueue of a risk action fails, the closing
\* order row and the ledger row written by the earlier steps stay as they were
\* written, the rows that existed before are untouched, no notification is
\* added, and the cycle ends without an error.
C13_NotifyFailureKeepsOrderAndLedger ==
    [][ last'.op = "risk" =>
          \A e \in Range(last'.evals) :
              e.outcome = "notify_failed" =>
                  /\ e.order_id \in (Len(orders) + 1)..Len(orders')
                  /\ orders'[e.order_id].status = "NEW"
                  /\ SubSeq(orders', 1, Len(orders)) = orders
                  /\ SubSeq(transactions', 1, Len(transactions)) = transactions
                  /\ Cardinality({ i \in DOMAIN NewTransactions :
                        /\ NewTransactions[i].related_order_id = e.order_id
                        /\ NewTransactions[i].transaction_type
                              = <<"RISK_ACTION", Upper(e.rule)>>
                        /\ NewTransactions[i].amount = e.close_qty }) = 1
                  /\ notification_outbox' = notification_outbox
                  /\ ~last'.raised
      ]_vars

C13_Witness ==
    /\ last.op = "risk"
    /\ ~last.raised
    /\ \E e \in Range(last.evals) :
          /\ e.outcome = "notify_failed"
          /\ e.order_id \in DOMAIN orders
          /\ \E tx \in Range(RiskActionRows(transactions)) : tx.related_order_id = e.order_id
          /\ notification_outbox = <<>>

ActiveWithKey(ords, key) ==
    { i \in DOMAIN ords : ords[i].idempotency_key = key /\ ords[i].status \in ActiveStatuses }

\* C14: the order store never holds two active orders with the same
\* idempotency key, and a placement the store decides (no other error) is
\* accepted exactly when no active order has its key: an identical decision in
\* the same minute creates a second order once the first is FILLED or
\* CANCELLED.
C14_OneActiveOrderPerKey ==
    /\ [](\A i, j \in DOMAIN orders :
            (/\ orders[i].idempotency_key = orders[j].idempotency_key
             /\ orders[i].status \in ActiveStatuses
             /\ orders[j].status \in ActiveStatuses) => i = j)
    /\ [][ (last'.op = "exec" /\ last'.outcome \in {"inserted", "duplicate"}) =>
             LET key == GenerateIdempotencyKey(AccountId, last'.decision, now)
             IN  IF ActiveWithKey(orders, key) = {}
                 THEN /\ last'.outcome = "inserted"
                      /\ orders' = Append(orders, orders'[Len(orders')])
                      /\ orders'[Len(orders')].idempotency_key = key
                      /\ orders'[Len(orders')].status = "NEW"
                 ELSE last'.outcome = "duplicate" /\ orders' = orders
       ]_vars

C14_Witness ==
    /\ Len(orders) = 2
    /\ orders[1].idempotency_key = orders[2].idempotency_key
    /\ orders[1].status = "CANCELLED"
    /\ orders[2].status = "NEW"
    /\ SameMinute(placed[1].t, placed[2].t)
    /\ placed[1].decision = placed[2].decision

\* C15: the ledger is append-only: every step of the risk cycle, of the order
\* placement and of fill processing leaves the rows the ledger held before
\* the step as they were, also when a later statement of the step fails, and
\* an UPDATE or DELETE of a ledger row is rejected by the store and changes
\* nothing.
C15_LedgerAppendOnly ==
    [][ /\ Len(transactions') >= Len(transactions)
        /\ SubSeq(transactions', 1, Len(transactions)) = transactions
        /\ last'.op = "ledger_write" =>
              (last'.status = "raise_exception" /\ transactions' = transactions)
      ]_vars

C15_Witness ==
    /\ last.op = "risk"
    /\ \E e \in Range(last.evals) : e.outcome = "notify_failed"
    /\ Len(transactions) = 2
    /\ transactions[1].transaction_type = <<"TRADE">>
    /\ transactions[2].transaction_type[1] = "RISK_ACTION"

\* Values of the calculator.
Negated(r) == IF r.kind = "value" THEN [r EXCEPT !.num = -r.num] ELSE r

Number(n, d) == [kind |-> "value", num |-> n, den |-> d]

\* The arguments of the call, and the tested scenarios.
RArgs == <<r_call.entry_price, r_call.current_price, r_call.stop_loss_price, r_call.side>>

RiskOfCall == Abs(r_call.entry_price - r_call.stop_loss_price)

ProfitOfCall ==
    IF r_call.side = "buy" THEN r_call.current_price - r_call.entry_price
    ELSE r_call.entry_price - r_call.current_price

\* The stop is on the losing side of the entry: below it for BUY, above it
\* for SELL.
ProtectiveStop ==
    IF r_call.side = "buy" THEN r_call.stop_loss_price < r_call.entry_price
    ELSE r_call.stop_loss_price > r_call.entry_price

RFormulaAndScenarios ==
    /\ r_call.result.kind = "value"
    /\ r_call.result.den > 0
    /\ r_call.result.num * RiskOfCall = ProfitOfCall * r_call.result.den
    /\ r_call.current_price = r_call.entry_price => r_call.result = Number(0, 1)
    /\ RArgs = <<100, 110, 90, "buy">> => r_call.result = Number(1, 1)
    /\ RArgs = <<100, 125, 90, "buy">> => r_call.result = Number(5, 2)
    /\ RArgs = <<100, 95, 90, "buy">> => r_call.result = Number(-1, 2)
    /\ RArgs = <<100, 100, 90, "buy">> => r_call.result = Number(0, 1)
    /\ RArgs = <<100, 90, 110, "sell">> => r_call.result = Number(1, 1)

RCallDefined ==
    /\ r_call.result # Pending
    /\ r_call.entry_price # r_call.stop_loss_price
    /\ r_call.side \in {"buy", "sell"}

\* C16 as stated: for entry # stop_loss the result is profit / |entry -
\* stop_loss| with the profit of the side, 0 at the entry price, the values
\* of the listed cases, and -1 whenever the current price equals the stop.
C16_RMultipleMinusOneAtEveryStop ==
    RCallDefined =>
        /\ RFormulaAndScenarios
        /\ r_call.current_price = r_call.stop_loss_price => r_call.result = Number(-1, 1)

\* C16: for entry # stop_loss the result is profit / |entry - stop_loss|
\* with the profit of the side, 0 at the entry price, the values of the
\* listed cases, and at the stop price -1 when the stop is on the losing side
\* of the entry (below for BUY, above for SELL) and +1 when it is on the
\* other side.
C16_RMultipleFormula ==
    RCallDefined =>
        /\ RFormulaAndScenarios
        /\ r_call.current_price = r_call.stop_loss_price =>
              r_call.result = (IF ProtectiveStop THEN Number(-1, 1) ELSE Number(1, 1))

C16_Witness ==
    /\ RArgs = <<100, 125, 90, "buy">>
    /\ r_call.result = Number(5, 2)

\* C17: the call returns None, and raises nothing, for every current price
\* and side when entry equals stop_loss, and for every side that is neither
\* BUY nor SELL.
C17_NoValueOnZeroRiskOrInvalidSide ==
    (/\ r_call.result # Pending
     /\ \/ r_call.entry_price = r_call.stop_loss_price
        \/ r_call.side \notin {"buy", "sell"}) =>
        r_call.result = NoValue

C17_Witness ==
    /\ r_call.entry_price = r_call.stop_loss_price
    /\ r_call.current_price # r_call.entry_price
    /\ r_call.side = "sell"
    /\ r_call.result = NoValue

RBothReturned ==
    /\ r_call.entry_price # r_call.stop_loss_price
    /\ r_call.side \in {"buy", "sell"}
    /\ r_call.result # Pending
    /\ r_call.mirrored # Pending

\* C18 as stated: the result for a side at a current price is the negation
\* of the result for the other side at the current price reflected around
\* the entry.
C18_MirroredIsNegated ==
    RBothReturned => r_call.result = Negated(r_call.mirrored)

\* C18: the result for a side at a current price equals the result for the
\* other side at the current price reflected around the entry, and is the
\* negation of the result for the other side at the same current price.
C18_MirroredIsEqualOppositeIsNegated ==
    RBothReturned =>
        /\ r_call.result = r_call.mirrored
        /\ r_call.opposite # Pending => r_call.result = Negated(r_call.opposite)

C18_Witness ==
    /\ RArgs = <<100, 110, 90, "buy">>
    /\ r_call.result = Number(1, 1)
    /\ r_call.mirrored = Number(1, 1)
    /\ r_call.opposite = Number(-1, 1)

\* Two instances have finished the placement of the same decision, begun in
\* the same UTC minute.
SameActionDone(a, b) ==
    /\ a # b
    /\ placers[a].pc = "done"
    /\ placers[b].pc = "done"
    /\ placers[a].decision = placers[b].decision
    /\ SameMinute(placers[a].t, placers[b].t)

\* The orders, ledger rows and notifications of the action of instance p.
OrdersOfAction(p) ==
    { i \in DOMAIN orders : /\ placed[i].decision = placers[p].decision
                            /\ SameMinute(placed[i].t, placers[p].t) }

LedgerRowsOfAction(p) ==
    { i \in DOMAIN transactions :
        /\ transactions[i].transaction_type[1] = "RISK_ACTION"
        /\ transactions[i].related_order_id \in OrdersOfAction(p) }

NotificationsOfAction(p) ==
    { i \in DOMAIN notification_outbox :
        /\ notification_outbox[i].severity = "INFO"
        /\ notification_outbox[i].dedupe_key[4] \in OrdersOfAction(p) }

ExactlyOneObtainsOrderId(a, b) ==
    /\ Cardinality({ p \in {a, b} : placers[p].ret # None }) = 1
    /\ \A p \in {a, b} : placers[p].ret = None => placers[p].outcome = "duplicate"
    /\ Cardinality(OrdersOfAction(a)) = 1
    /\ Cardinality(LedgerRowsOfAction(a)) = (IF placers[a].kind = "risk" THEN 1 ELSE 0)
    /\ Cardinality(NotificationsOfAction(a)) = (IF placers[a].kind = "risk" THEN 1 ELSE 0)

\* C12 as stated: whenever two instances have run the same action in the
\* same UTC minute, exactly one obtained an order id, the other got None from
\* the uniqueness conflict, and one order (and for a risk action one ledger
\* row and one notification) exists for the action.
C12_ExactlyOneInstancePlaces ==
    \A a, b \in Instances : SameActionDone(a, b) => ExactlyOneObtainsOrderId(a, b)

\* C12: the same holds whenever no order of the action had left the active
\* statuses by the time an INSERT of the action was accepted; after a fill of
\* the first order within the minute the other instance obtains an order id
\* as well.
C12_ExactlyOneInstancePlacesWhileActive ==
    \A a, b \in Instances :
        SameActionDone(a, b) =>
            IF placers[a].bypassed \/ placers[b].bypassed
            THEN /\ placers[a].ret # None
                 /\ placers[b].ret # None
                 /\ Cardinality(OrdersOfAction(a)) = 2
            ELSE ExactlyOneObtainsOrderId(a, b)

C12_Witness ==
    /\ SameActionDone("a", "b")
    /\ placers["a"].kind = "risk"
    /\ placers["a"].ret # None
    /\ placers["b"].outcome = "duplicate"
    /\ placers["b"].waited
    /\ Cardinality(LedgerRowsOfAction("a")) = 1
    /\ Cardinality(NotificationsOfAction("a")) = 1

\* The rows a worker's open transaction has selected and locked.
PickedBy(w) == { n.id : n \in Range(notifiers[w].batch) }

\* C19: no notification is in the batch of two workers at the same time: a
\* row selected and locked by one worker's run is in no other worker's batch
\* as long as that run's transaction is open, and a run that begins picks no
\* row another worker has locked.
C19_NoNotificationPickedTwice ==
    /\ [](\A w, v \in Workers : w # v => PickedBy(w) \cap PickedBy(v) = {})
    /\ [][ last'.op = "notify_begin" =>
             last'.picked \cap LockedByOthers(last'.worker) = {} ]_vars

C19_Witness ==
    /\ notifiers["w1"].pc = "sending"
    /\ notifiers["w2"].pc = "sending"
    /\ PickedBy("w1") = {1}
    /\ PickedBy("w2") = {2}
    /\ Due(notification_outbox[1], now)
    /\ last = [op |-> "notify_begin", worker |-> "w2", picked |-> {2}]

RECURSIVE SumQuantity(_)
SumQuantity(ords) == IF ords = <<>> THEN 0 ELSE Head(ords).quantity + SumQuantity(Tail(ords))

\* The closing orders the risk cycles created for a position: the orders of
\* its instrument placed by a closing decision.
ClosingOrdersOf(position) ==
    SelectSeq(orders, LAMBDA o :
        /\ o.exchange_instrument_id = position.exchange_instrument_id
        /\ placed[o.id].decision.stop_loss = 0
        /\ placed[o.id].decision.take_profit = 0)

\* C20: for a position whose quantity no fill has changed, the quantities of
\* the closing orders the risk cycles created for it add up to at most the
\* absolute quantity of the position.
C20_ClosingOrdersWithinPosition ==
    \A position \in Range(positions) :
        SumQuantity(ClosingOrdersOf(position)) <= Abs(position.quantity)

\* The outcomes the action executor reports for a rule dispatched to it.
ExecutorOutcomes ==
    {"not_implemented", "invalid_percentage", "no_instrument", "duplicate", "rejected",
     "db_error", "inserted", "ledger_failed", "notify_failed"}

\* C21: the evaluator keeps no memory of earlier triggers: in every risk
\* cycle, every position whose R meets the threshold of some rule has a rule
\* dispatched to the action executor, also when the same rule was dispatched
\* for the position in an earlier cycle.
C21_RuleDispatchedEveryCycle ==
    \A e \in Evaluated :
        (\E r \in Range(risk_rules) : r.profit_r * e.risk <= e.profit * RScale) =>
            /\ e.rule # "none"
            /\ e.action = RuleNamed(e.rule).action
            /\ e.outcome \in ExecutorOutcomes

\* The rule partial_profit_1R is dispatched, and places an order, in a cycle
\* after the cycle that wrote the ledger row of its first dispatch.
C21_Witness ==
    /\ last.op = "risk"
    /\ \E e \in Evaluated :
          /\ e.rule = "partial_profit_1R"
          /\ e.outcome = "inserted"
          /\ \E tx \in Range(RiskActionRows(transactions)) :
                /\ tx.timestamp < now
                /\ tx.transaction_type = <<"RISK_ACTION", "PARTIAL_PROFIT_1R">>
                /\ orders[tx.related_order_id].exchange_instrument_id = e.instrument

\* C22: for every closing order a risk action asks for, the instrument the
\* placement resolves from the symbol the action executor passes is the
\* exchange instrument of the position, and the order created carries it.
C22_ClosingOrderOnPositionInstrument ==
    last.op = "risk" =>
        \A e \in Range(last.evals) :
            (e.action = "close_partial" /\ e.close_side # "none") =>
                /\ GetExchangeInstrumentId(e.symbol, "none") = e.instrument
                /\ e.order_id # None =>
                      orders[e.order_id].exchange_instrument_id = e.instrument

\* C23: whenever a guardrail check adds the CRITICAL 'TRADING HALTED'
\* notification to the outbox, the stored is_trading_enabled flag is false
\* after the check, and the write of the flag did not fail in that check.
C23_AlertOnlyWhenFlagStoredFalse ==
    [][ (/\ last'.op = "risk"
         /\ \E i \in DOMAIN NewNotifications :
               /\ NewNotifications[i].severity = "CRITICAL"
               /\ NewNotifications[i].title = <<"TRADING HALTED">>)
        => (/\ ~system_configuration'.is_trading_enabled
            /\ last'.guard.failed # "set_flag") ]_vars

\* The orders placed by the closing decisions of risk actions, and the
\* notifications of risk actions.
ClosingOrders ==
    SelectSeq(orders, LAMBDA o : /\ placed[o.id].decision.stop_loss = 0
                                 /\ placed[o.id].decision.take_profit = 0)

RiskNotifications ==
    SelectSeq(notification_outbox, LAMBDA n : /\ n.severity = "INFO"
                                              /\ n.dedupe_key[1] = "risk-action")

\* C24: after any sequence of risk cycles with any failures of their steps,
\* every RISK_ACTION ledger row refers to a closing order in the order store,
\* every notification of a risk action has the ledger row and the order of
\* the same action, and there are at most as many such notifications as
\* RISK_ACTION rows and at most as many RISK_ACTION rows as closing orders.
C24_NotificationsWithinLedgerWithinOrders ==
    /\ \A tx \in Range(RiskActionRows(transactions)) :
          \E o \in Range(ClosingOrders) : o.id = tx.related_order_id
    /\ \A n \in Range(RiskNotifications) :
          /\ n.dedupe_key[4] \in DOMAIN orders
          /\ \E tx \in Range(RiskActionRows(transactions)) :
                /\ tx.related_order_id = n.dedupe_key[4]
                /\ tx.transaction_type = <<"RISK_ACTION", Upper(n.dedupe_key[3])>>
    /\ Len(RiskNotifications) <= Len(RiskActionRows(transactions))
    /\ Len(RiskActionRows(transactions)) <= Len(ClosingOrders)

\* One cycle placed an order and failed to write the ledger row, another
\* wrote the ledger row and failed to enqueue the notification.
C24_Witness ==
    /\ Len(ClosingOrders) = 2
    /\ Len(RiskActionRows(transactions)) = 1
    /\ Len(RiskNotifications) = 0
    /\ last.op = "risk"
    /\ \E e \in Range(last.evals) : e.outcome = "notify_failed"

\* C25: a successful set_trading_enabled stores the flag and leaves the cache
\* empty, and a failed one leaves the store and the cache as they were; a
\* get_system_configuration call that finds the cache empty reads the store
\* and returns the stored configuration, so the call that follows a successful
\* write returns the flag just written.
C25_WriteInvalidatesCache ==
    [][ /\ (last'.op = "set_trading" /\ last'.ok) =>
              /\ config_cache' = <<>>
              /\ cache_expiry' = None
              /\ system_configuration'.is_trading_enabled = last'.status
        /\ (last'.op = "set_trading" /\ ~last'.ok) =>
              /\ config_cache' = config_cache
              /\ cache_expiry' = cache_expiry
              /\ system_configuration' = system_configuration
        /\ (last'.op = "get_config" /\ config_cache = <<>> /\ last'.returned # <<>>) =>
              /\ last'.read
              /\ last'.returned = <<system_configuration>>
        /\ (last'.op = "get_config" /\ last'.after_set /\ last'.returned # <<>>) =>
              /\ last'.read
              /\ last'.returned[1].is_trading_enabled = last.status
      ]_vars

\* The cache held the enabled configuration and was fresh when the flag was
\* written false; the call that follows reads the store and returns the
\* disabled configuration.
C25_Witness ==
    /\ last.op = "get_config"
    /\ last.after_set
    /\ last.cached_at_set # <<>>
    /\ last.cached_at_set[1].is_trading_enabled
    /\ last.read
    /\ ~last.returned[1].is_trading_enabled
    /\ config_cache = last.returned

\* C26: no step of the core (risk cycle, order placement) sets the stored
\* is_trading_enabled flag from false to true, and the only change a step
\* other than an operator's write makes to the stored configuration is a
\* guardrail check that found a breach setting the flag to false.
C26_CoreNeverReenablesTrading ==
    [][ last'.op # "operator" =>
          /\ ~system_configuration.is_trading_enabled =>
                ~system_configuration'.is_trading_enabled
          /\ system_configuration' # system_configuration =>
                /\ last'.op = "risk"
                /\ last'.guard.breached # "none"
                /\ last'.guard.flag_written
                /\ system_configuration.is_trading_enabled
                /\ system_configuration' =
                      [system_configuration EXCEPT !.is_trading_enabled = FALSE]
      ]_vars

\* A risk cycle and an order placement after the breach of an earlier cycle
\* switched trading off: the flag is still false.
C26_Witness ==
    /\ last.op = "exec"
    /\ last.ret # None
    /\ ~system_configuration.is_trading_enabled
    /\ \E n \in Range(notification_outbox) :
          n.severity = "CRITICAL" /\ n.created_at < now

\* C27: a guardrail check whose configuration read reports trading disabled
\* does nothing: it computes no PnL and finds no breach, it leaves the stored
\* configuration as it was, and it adds no CRITICAL notification.
C27_DisabledCheckIsNoOp ==
    [][ (/\ last'.op = "risk"
         /\ last'.guard.failed # "config_read"
         /\ ~ConfigurationInEffect.is_trading_enabled)
        => (/\ ~last'.guard.checked
            /\ last'.guard.breached = "none"
            /\ ~last'.guard.flag_written
            /\ ~last'.guard.alert
            /\ system_configuration' = system_configuration
            /\ \A i \in DOMAIN NewNotifications :
                  NewNotifications[i].severity # "CRITICAL") ]_vars

\* The operator disabled trading, then a loss beyond the daily limit was
\* booked: the check of the next cycle reads the disabled configuration and
\* raises no alert.
C27_Witness ==
    /\ last.op = "risk"
    /\ ~last.guard.checked
    /\ last.guard.failed = "none"
    /\ ~system_configuration.is_trading_enabled
    /\ GetDailyPnl(transactions, now) < -system_configuration.daily_loss_limit_usd
    /\ notification_outbox = <<>>

\* The active positions of the account.
ActivePositionIds == { p.id : p \in { q \in Range(positions) :
                                        q.account_id = AccountId /\ q.quantity # 0 } }

\* C28: a risk cycle whose guardrail found a breach and failed to store the
\* flag, or to enqueue the alert, raises nothing: it goes on to fetch the
\* active positions and evaluates every one of them.
C28_GuardFailureDoesNotStopCycle ==
    (last.op = "risk" /\ last.guard.failed \in {"set_flag", "critical_notify"}) =>
        /\ last.guard.breached # "none"
        /\ ~last.raised
        /\ last.fetched = Cardinality(ActivePositionIds)
        /\ { e.position_id : e \in Range(last.evals) } = ActivePositionIds
        /\ \A e \in Range(last.evals) : e.outcome # "raised"

\* The write of the flag failed in a cycle that found the daily breach; the
\* same cycle evaluated the position and placed its closing order.
C28_Witness ==
    /\ last.op = "risk"
    /\ last.guard.breached = "daily"
    /\ last.guard.failed = "set_flag"
    /\ system_configuration.is_trading_enabled
    /\ Len(last.evals) = 1
    /\ last.evals[1].outcome = "inserted"

\* The position of an evaluation has no price, or no initial risk.
Unevaluable(e) ==
    \/ e.price = None
    \/ Abs(positions[e.position_id].average_entry_price
             - InitialStopLoss(positions[e.position_id])) = 0

\* C29: in a risk cycle in which the price source answers, a position whose
\* price is unavailable or whose initial risk |entry - stop_loss| is zero is
\* skipped: no rule is dispatched for it, and the cycle adds no order on its
\* instrument, no ledger row for such an order and no notification for it;
\* nothing is raised and every fetched position is evaluated.
C29_UnevaluablePositionSkipped ==
    [][ last'.op = "risk" =>
          /\ ~last'.raised
          /\ Len(last'.evals) = last'.fetched
          /\ last'.fetched # 0 =>
                { e.position_id : e \in Range(last'.evals) } = ActivePositionIds
          /\ \A e \in Range(last'.evals) :
                Unevaluable(e) =>
                    /\ e.rule = "none"
                    /\ e.action = "none"
                    /\ e.order_id = None
                    /\ \A i \in DOMAIN NewOrders :
                          NewOrders[i].exchange_instrument_id # e.instrument
                    /\ \A i \in DOMAIN NewTransactions :
                          orders'[NewTransactions[i].related_order_id].exchange_instrument_id
                             # e.instrument
                    /\ \A i \in DOMAIN NewNotifications :
                          NewNotifications[i].dedupe_key[2] # e.position_id
      ]_vars

\* The first position has no price and is skipped; the second, in the same
\* cycle, gets its closing order, ledger row and notification.
C29_Witness ==
    /\ last.op = "risk"
    /\ Len(last.evals) = 2
    /\ last.evals[1].price = None
    /\ last.evals[1].rule = "none"
    /\ last.evals[2].outcome = "inserted"
    /\ Len(orders) = 3
    /\ orders[3].exchange_instrument_id = last.evals[2].instrument
    /\ Len(RiskActionRows(transactions)) = 1
    /\ Len(notification_outbox) = 1

InvalidPercentage(rule) ==
    \/ rule.percentage = None
    \/ ~(0 < rule.percentage /\ rule.percentage <= PercentScale)

\* C31: a close_partial rule whose percentage is missing or outside (0, 1]
\* aborts before any side effect: the evaluation carries no closing quantity,
\* side or order id, and the cycle adds no order, ledger row or notification.
C31_InvalidPercentageNoSideEffect ==
    [][ last'.op = "risk" =>
          \A e \in Range(last'.evals) :
              (e.action = "close_partial" /\ InvalidPercentage(RuleNamed(e.rule))) =>
                  /\ e.outcome = "invalid_percentage"
                  /\ e.close_qty = 0
                  /\ e.close_side = "none"
                  /\ e.order_id = None
                  /\ orders' = orders
                  /\ placed' = placed
                  /\ transactions' = transactions
                  /\ notification_outbox' = notification_outbox
      ]_vars

\* The close_partial rule with a percentage of 1.5 is dispatched for the
\* position at R of 1.0 or more, and nothing but the opening order and its
\* trade row exists.
C31_Witness ==
    /\ last.op = "risk"
    /\ \E e \in Evaluated :
          /\ e.rule = "partial_profit_1R"
          /\ e.profit >= e.risk
          /\ RuleNamed(e.rule).percentage = 150
          /\ e.outcome = "invalid_percentage"
    /\ Len(orders) = 1
    /\ Len(transactions) = 1
    /\ notification_outbox = <<>>

\* The fields of a decision the key is computed from.
KeyFields(decision) ==
    <<decision.symbol, decision.side, decision.stop_loss, decision.take_profit>>

\* C32: the key of a placement is a function of (account, symbol, side,
\* stop-loss, take-profit, UTC minute) only. A placement whose decision is
\* identical to that of an earlier order of another minute computes a key
\* different from that order's; when no order of the same key fields was
\* placed in the current minute the placement creates its own order; a
\* placement whose decision differs from that of an earlier order of the same
\* minute in quantity or confidence only computes that order's key.
C32_KeyOfFieldsAndMinuteOnly ==
    [][ (last'.op = "exec" /\ last'.outcome # "no_instrument") =>
          LET decision == last'.decision
              key == GenerateIdempotencyKey(AccountId, decision, now)
          IN  /\ \A i \in DOMAIN orders :
                    (placed[i].decision = decision /\ ~SameMinute(placed[i].t, now)) =>
                        key # orders[i].idempotency_key
              /\ (\A i \in DOMAIN orders :
                     KeyFields(placed[i].decision) = KeyFields(decision) =>
                        ~SameMinute(placed[i].t, now)) =>
                    /\ last'.ret = Len(orders) + 1
                    /\ Len(orders') = Len(orders) + 1
                    /\ orders'[last'.ret].idempotency_key = key
              /\ \A i \in DOMAIN orders :
                    (/\ KeyFields(placed[i].decision) = KeyFields(decision)
                     /\ SameMinute(placed[i].t, now)) =>
                        key = orders[i].idempotency_key
      ]_vars

\* Two orders of one decision placed in different minutes, then the same
\* decision with another quantity and another confidence in the minute of
\* the second: its key is that of the second order and it is suppressed.
C32_Witness ==
    /\ Len(orders) = 2
    /\ placed[1].decision = placed[2].decision
    /\ ~SameMinute(placed[1].t, placed[2].t)
    /\ orders[1].idempotency_key # orders[2].idempotency_key
    /\ last.op = "exec"
    /\ last.ret = None
    /\ KeyFields(last.decision) = KeyFields(placed[2].decision)
    /\ last.decision.quantity # placed[2].decision.quantity
    /\ last.decision.confidence # placed[2].decision.confidence
    /\ SameMinute(placed[2].t, now)
    /\ GenerateIdempotencyKey(AccountId, last.decision, now) = orders[2].idempotency_key

\* C33: after a webhook request that was answered, the inbound alert row of
\* its key exists; it carries the error message when the placement returned
\* no order id, and parsed = true when the placement returned one.
C33_AlertRowKeptWithOutcome ==
    [][ (last'.op = "webhook" /\ last'.status = "ok") =>
          \E a \in Range(inbound_alerts') :
              /\ a.dedupe_key = last'.alert.idempotency_key
              /\ IF last'.order_id = None
                 THEN a.error = PlacementFailedMessage
                 ELSE a.parsed
      ]_vars

\* The ids of the rows a run in progress holds.
HeldByRuns == UNION { { n.id : n \in Range(notifiers[w].batch) } : w \in Workers }

\* C34: a notification is delivered at most once: no send succeeds for a
\* notification whose send succeeded before, and once the run that sent it
\* has ended the notification is SENT, also when the run ended with a
\* database error.
C34_DeliveredAtMostOnce ==
    /\ [](\A id \in delivered \ HeldByRuns : notification_outbox[id].status = "SENT")
    /\ [][ (last'.op = "notify_send" /\ last'.success) => last'.id \notin delivered ]_vars

\* The row a run updated last.
LastUpdated(updated) == updated[Len(updated)]

\* C36: the state machine of the outbox. A failed send increments fail_count
\* by exactly one; its row becomes FAILED exactly when fail_count reaches
\* MAX_RETRIES and stays PENDING before that, with send_after moved
\* BASE_BACKOFF_SECONDS * 2^(previous fail_count) ahead; a row that is SENT or
\* FAILED is never selected or modified again; a PENDING row is not selected
\* before its send_after.
C36_OutboxStateMachine ==
    /\ [](\A n \in Range(notification_outbox) :
             /\ n.fail_count <= MAX_RETRIES
             /\ n.status = "FAILED" <=> n.fail_count = MAX_RETRIES)
    /\ [][ /\ (last'.op = "notify_send" /\ ~last'.success) =>
              \E n \in {notification_outbox[last'.id]},
                 u \in {LastUpdated(notifiers'[last'.worker].updated)} :
                  /\ u.id = n.id
                  /\ u.fail_count = n.fail_count + 1
                  /\ u.status = (IF u.fail_count = MAX_RETRIES THEN "FAILED" ELSE "PENDING")
                  /\ (u.status = "PENDING") =>
                        (u.send_after = now + BASE_BACKOFF_SECONDS * Pow2(n.fail_count))
           /\ \A i \in DOMAIN notification_outbox :
                 (notification_outbox[i].status \in {"SENT", "FAILED"}) =>
                     (notification_outbox'[i] = notification_outbox[i])
           /\ \A i \in DOMAIN notification_outbox :
                 (notification_outbox'[i] # notification_outbox[i]) =>
                     \/ notification_outbox'[i].status = "SENT"
                     \/ notification_outbox'[i].fail_count = notification_outbox[i].fail_count + 1
           /\ (last'.op = "notify_begin") =>
                 \A id \in last'.picked :
                     /\ notification_outbox[id].status = "PENDING"
                     /\ \/ notification_outbox[id].send_after = None
                        \/ notification_outbox[id].send_after <= now
         ]_vars

\* A run begins while one row is FAILED after five failures and the other is
\* in its last backoff, eight minutes long: it picks neither.
C36_Witness ==
    /\ last.op = "notify_begin"
    /\ last.picked = {}
    /\ \E n \in Range(notification_outbox) :
          n.status = "FAILED" /\ n.fail_count = MAX_RETRIES /\ n.send_after = None
    /\ \E n \in Range(notification_outbox) :
          /\ n.status = "PENDING"
          /\ n.fail_count = MAX_RETRIES - 1
          /\ n.send_after > now
          /\ n.send_after >= 8 * BASE_BACKOFF_SECONDS

\* The notification is PENDING for an enabled chat whose minimum severity it
\* meets.
Deliverable(id) ==
    /\ id \in DOMAIN notification_outbox
    /\ notification_outbox[id].status = "PENDING"
    /\ \E tc \in Range(telegram_chats) :
          /\ tc.chat_id = notification_outbox[id].chat_id
          /\ tc.enabled
          /\ SeverityRank(notification_outbox[id].severity) >= SeverityRank(tc.min_severity)

Settled(id) ==
    /\ id \in DOMAIN notification_outbox
    /\ notification_outbox[id].status \in {"SENT", "FAILED"}

\* The send attempts of a notification: its failed sends and its delivery.
SendAttempts(n) == n.fail_count + (IF n.id \in delivered THEN 1 ELSE 0)

CacheAge == now - (cache_expiry - CACHE_TTL_SECONDS)

\* C37: get_system_configuration returns the cached configuration without
\* reading the store exactly while the cache is filled and less than
\* CACHE_TTL_SECONDS old; otherwise it reads the store, and then either
\* returns the stored configuration and refills the cache with it, or, the
\* read having failed or found no row, returns no configuration and leaves
\* the cache as it was. The expiry of the cache is set only by a refill, to
\* CACHE_TTL_SECONDS after it, or cleared.
C37_CacheServesOnlyWithinTtl ==
    [][ /\ (last'.op = "get_config") =>
              IF config_cache # <<>> /\ cache_expiry # None /\ CacheAge < CACHE_TTL_SECONDS
              THEN /\ ~last'.read
                   /\ last'.returned = config_cache
                   /\ config_cache' = config_cache
                   /\ cache_expiry' = cache_expiry
              ELSE \/ /\ last'.read
                      /\ last'.returned = <<system_configuration>>
                      /\ config_cache' = <<system_configuration>>
                      /\ cache_expiry' = now + CACHE_TTL_SECONDS
                   \/ /\ ~last'.read
                      /\ last'.returned = <<>>
                      /\ config_cache' = config_cache
                      /\ cache_expiry' = cache_expiry
        /\ (cache_expiry' # cache_expiry) =>
              \/ cache_expiry' = None
              \/ last'.op = "get_config" /\ last'.read /\ cache_expiry' = now + CACHE_TTL_SECONDS
      ]_vars

\* The cache was filled at 0 with trading enabled, the operator disabled
\* trading, and the call at 15, the instant of the expiry, read the store and
\* returned the stored configuration.
C37_Witness ==
    /\ last.op = "get_config"
    /\ last.read
    /\ now = CACHE_TTL_SECONDS
    /\ cache_expiry = 2 * CACHE_TTL_SECONDS
    /\ ~system_configuration.is_trading_enabled
    /\ last.returned = <<system_configuration>>

\* C38: for a position whose initial stop-loss is unset, the stop-loss the
\* evaluator computes R from is entry * 0.98 when the position is long and
\* entry * 1.02 when it is short.
C38_SynthesizedStopBySide ==
    [][ last'.op = "risk" =>
          \A e \in Range(last'.evals) :
              (positions[e.position_id].initial_stop_loss = None /\ e.risk # None) =>
                  \E position \in {positions[e.position_id]} :
                      /\ InitialStopLoss(position) =
                            (IF position.quantity > 0
                             THEN (position.average_entry_price * 98) \div 100
                             ELSE (position.average_entry_price * 102) \div 100)
                      /\ e.risk = Abs(position.average_entry_price - InitialStopLoss(position))
      ]_vars

\* C39: the ledger row appended by a close_partial action references the
\* order id the placement returned, which is that of the order the cycle
\* inserted, is tagged RISK_ACTION_<rule name in upper case>, and its amount
\* is the closing quantity; the notification enqueued after it has severity
\* INFO and the dedupe key of the position id, the rule name and that order id.
C39_LedgerRowAndNotificationFields ==
    [][ last'.op = "risk" =>
          \A e \in Range(last'.evals) :
              /\ e.ledger =>
                    /\ e.order_id \in (Len(orders) + 1)..Len(orders')
                    /\ \E i \in DOMAIN NewTransactions :
                          /\ NewTransactions[i].related_order_id = e.order_id
                          /\ NewTransactions[i].account_id = AccountId
                          /\ NewTransactions[i].transaction_type =
                                <<"RISK_ACTION", Upper(e.rule)>>
                          /\ NewTransactions[i].amount = e.close_qty
                          /\ e.close_qty * PercentScale =
                                e.quantity * RuleNamed(e.rule).percentage
                    /\ \A i \in DOMAIN NewTransactions :
                          NewTransactions[i].transaction_type[1] = "RISK_ACTION"
              /\ e.notified =>
                    /\ e.ledger
                    /\ \E i \in DOMAIN NewNotifications :
                          /\ NewNotifications[i].severity = "INFO"
                          /\ NewNotifications[i].dedupe_key =
                                <<"risk-action", e.position_id, e.rule, e.order_id>>
      ]_vars

\* A quarter of the long position is closed by order 2: the ledger row is
\* RISK_ACTION_PARTIAL_PROFIT_1R of 0.0025 for order 2 and the notification
\* is INFO with the key risk-action-1-partial_profit_1R-2.
C39_Witness ==
    /\ last.op = "risk"
    /\ Len(last.evals) = 1
    /\ last.evals[1].ledger
    /\ last.evals[1].notified
    /\ last.evals[1].order_id = 2
    /\ Len(orders) = 2
    /\ transactions[Len(transactions)] =
          [id |-> 2, account_id |-> AccountId, related_order_id |-> 2,
           transaction_type |-> <<"RISK_ACTION", "PARTIAL_PROFIT_1R">>,
           amount |-> PlaceholderQuantity \div 4, timestamp |-> now]
    /\ Len(notification_outbox) = 1
    /\ notification_outbox[1].severity = "INFO"
    /\ notification_outbox[1].dedupe_key = <<"risk-action", 1, "partial_profit_1R", 2>>

============================================================================
